---- MODULE Spec2Model ----
(***************************************************************************)
(* The pipeline execution engine of lava_dispatcher/action.py:             *)
(* Pipeline.run_actions with its error handlers, pipeline_cleanup,          *)
(* cleanup_actions, _diagnose, the job-level timeout check and the         *)
(* cancellation paths, run over a tree of actions.                         *)
(*                                                                         *)
(* An action is identified by its position in the tree: the sequence of    *)
(* 1-based insertion indices from the root pipeline (its level).           *)
(* The root pipeline is the empty sequence.                                *)
(***************************************************************************)
EXTENDS Integers, Sequences, FiniteSets, TLC

(***************************************************************************)
(* Bounds                                                                  *)
(***************************************************************************)
MaxRetries == 3
MaxTime == 2

(***************************************************************************)
(* Error categories (action.py:44-76 and Python built-ins)                 *)
(***************************************************************************)
DomainTypes == {"JobError", "InfrastructureError"}
\* the classes named in the first except clause of run_actions
CaughtTypes == {"ValueError", "KeyError", "NameError", "SyntaxError", "OSError",
                "TypeError", "RuntimeError", "AttributeError"}
\* unexpected errors the except clause does not name
UncaughtTypes == {"TestError", "IndexError"}

NoExc == [type |-> "none", msg |-> ""]
Exc(t, m) == [type |-> t, msg |-> m]

\* complaints an action may append to job.triggers; only "known" has a
\* diagnostic registered with the job
Complaints == {"known", "missing"}
Registered == {"known"}

\* connections: 0 is None, a positive number is a connection object
NoConn == 0

(***************************************************************************)
(* Timeout (action.py:854-919)                                             *)
(***************************************************************************)
\* lava_dispatcher.utils.constants, imported at action.py:35-38
ACTION_TIMEOUT == 30
OVERRIDE_CLAMP_DURATION == 300

Max(x, y) == IF x >= y THEN x ELSE y
Min(x, y) == IF x <= y THEN x ELSE y

\* a Python value handed to code that tests isinstance(data, dict): a dict
\* is a function from its keys, anything else carries no mapping
Dict(m) == [isdict |-> TRUE, map |-> m]
NotADict == [isdict |-> FALSE, map |-> <<>>]

\* Timeout.__init__
Timeout(name, d, protected) == [name |-> name, duration |-> d, protected |-> protected]

\* Timeout.default_duration
default_duration == ACTION_TIMEOUT

\* datetime.timedelta(days, hours, minutes, seconds): the normalised pair
\* (days, seconds) with 0 <= seconds < 86400 that Python stores
timedelta(days, hours, minutes, seconds) ==
    LET secs == hours * 3600 + minutes * 60 + seconds
    IN [days |-> days + (secs \div 86400), seconds |-> secs % 86400]

\* timedelta.total_seconds
total_seconds(td) == td.days * 86400 + td.seconds

\* mutant: a zero duration is returned as it is
parseWithoutDefault(data) ==
    IF ~data.isdict
    THEN [raised |-> "RuntimeError", value |-> 0]
    ELSE [raised |-> "none",
          value |-> total_seconds(timedelta(
                        IF "days" \in DOMAIN data.map THEN data.map["days"] ELSE 0,
                        IF "hours" \in DOMAIN data.map THEN data.map["hours"] ELSE 0,
                        IF "minutes" \in DOMAIN data.map THEN data.map["minutes"] ELSE 0,
                        IF "seconds" \in DOMAIN data.map THEN data.map["seconds"] ELSE 0))]

\* Timeout.parse: the value returned, or the error raised
parse(data) ==
    IF ~data.isdict
    THEN [raised |-> "RuntimeError", value |-> 0]
    ELSE LET days == IF "days" \in DOMAIN data.map THEN data.map["days"] ELSE 0
             hours == IF "hours" \in DOMAIN data.map THEN data.map["hours"] ELSE 0
             minutes == IF "minutes" \in DOMAIN data.map THEN data.map["minutes"] ELSE 0
             seconds == IF "seconds" \in DOMAIN data.map THEN data.map["seconds"] ELSE 0
             td == timedelta(days, hours, minutes, seconds)
         IN IF td.days = 0 /\ td.seconds = 0
            THEN [raised |-> "none", value |-> default_duration]
            ELSE [raised |-> "none", value |-> total_seconds(td)]

\* Timeout.modify: the error raised and the timeout as it is left
modify(t, d) ==
    IF t.protected
    THEN [raised |-> "JobError", timeout |-> t]
    ELSE [raised |-> "none",
          timeout |-> [t EXCEPT !.duration = Max(Min(OVERRIDE_CLAMP_DURATION, d), 1)]]

(***************************************************************************)
(* Trees of actions                                                        *)
(***************************************************************************)
Leaf == [kind |-> "leaf", n |-> 0, max_retries |-> 1]
Finalize == [kind |-> "finalize", n |-> 0, max_retries |-> 1]
Container(k) == [kind |-> "container", n |-> k, max_retries |-> 1]
Retry(k, r) == [kind |-> "retry", n |-> k, max_retries |-> r]
Root(k) == [kind |-> "root", n |-> k, max_retries |-> 1]

\* [A, B, C, finalize]
FlatTree ==
    (<<>> :> Root(4)) @@ (<<1>> :> Leaf) @@ (<<2>> :> Leaf) @@
    (<<3>> :> Leaf) @@ (<<4>> :> Finalize)

\* [A[A1], B[B1, B2], C, finalize]: A and B own internal pipelines
NestedTree ==
    (<<>> :> Root(4)) @@ (<<1>> :> Container(1)) @@ (<<1, 1>> :> Leaf) @@
    (<<2>> :> Container(2)) @@ (<<2, 1>> :> Leaf) @@ (<<2, 2>> :> Leaf) @@
    (<<3>> :> Leaf) @@ (<<4>> :> Finalize)

\* [A, R[R1], finalize]: R is a retry wrapper
RetryTree(r) ==
    (<<>> :> Root(3)) @@ (<<1>> :> Leaf) @@
    (<<2>> :> Retry(1, r)) @@ (<<2, 1>> :> Leaf) @@
    (<<3>> :> Finalize)

\* [A[A1[A11]], B]: two levels of nesting, no finalize action
DeepTree ==
    (<<>> :> Root(2)) @@ (<<1>> :> Container(1)) @@
    (<<1, 1>> :> Container(1)) @@ (<<1, 1, 1>> :> Leaf) @@
    (<<2>> :> Leaf)

Trees == {FlatTree, NestedTree, DeepTree} \cup {RetryTree(r) : r \in 1..MaxRetries}

\* job.timeout.duration; 0 stands for a job without a timeout
JobTimeouts == 0..1

VARIABLES
    tree,        \* the built action tree (job.pipeline)
    jobTimeout,  \* job.timeout.duration
    stack,       \* the active run_actions calls, outermost first
    pc,          \* position of the innermost call
    exc,         \* the exception in flight
    retval,      \* the value action.run returned
    now,         \* time.time()
    alarm,       \* the action whose SIGALRM is pending, or <<0>>
    handler,     \* the handler installed for SIGINT and for SIGTERM
    errors,      \* Action.__errors__ of every action
    elapsed,     \* Action.elapsed_time of every action, -1 for None
    triggers,    \* job.triggers
    bootResult,  \* job.context['boot-result'], "unset" when absent
    log,         \* history: the calls made so far, in order
    outcome,     \* how job.pipeline.run_actions ended
    duration,    \* Action.timeout.duration of every action
    alarmAt,     \* the time the pending SIGALRM is due, NoTime when not tracked
    pipelines,   \* construction: branch_level and len(actions) of every Pipeline
    levels,      \* construction: Action.level of every action added
    jobParams,   \* construction: job.parameters
    device,      \* construction: job.device
    addedAction, \* construction: the action of the last add_action call
    call,        \* the last call of Timeout.parse or Timeout.modify and its result
    acts,        \* validation: the actions of job.pipeline, by position
    context,     \* job.context
    vres,        \* validation: how job.pipeline.validate_actions() ended
    heap,        \* the list objects alive, by reference
    got,         \* what the last get_common_data call returned
    running,     \* how many actions of the job have started to run
    command,     \* the last Action.run_command call and what it returned
    protocol,    \* call_protocols: the call dicts of the action, the calls made
    prompt,      \* the wait_for_prompt call in progress
    cli,         \* the TestCliAction.run call in progress
    accepted     \* the last TestCli.accepts call and what it returned

engineVars == <<tree, jobTimeout, stack, pc, exc, retval, now, alarm, handler,
                errors, elapsed, triggers, bootResult, log, outcome>>
timerVars == <<duration, alarmAt>>
buildVars == <<pipelines, levels, jobParams, device, addedAction, call>>
jobVars == <<acts, context, vres, heap, got, running>>
toolVars == <<command, protocol, prompt, cli, accepted>>
vars == <<engineVars, timerVars, buildVars, jobVars, toolVars>>

NoAlarm == <<0>>
NoTime == -1

\* Action.__init__: timeout = Timeout(self.name), connection_timeout =
\* Timeout(self.name), parameters = {}; no pipeline holds the action yet
NoAction == [name |-> "", timeout |-> Timeout("", ACTION_TIMEOUT, FALSE),
             connection_timeout |-> Timeout("", ACTION_TIMEOUT, FALSE),
             parameters |-> <<>>, errors |-> <<>>, max_retries |-> 1]
NoCall == [op |-> "none", path |-> <<>>, data |-> NotADict, d |-> 0,
           before |-> NoAction.timeout, raised |-> "none", value |-> 0]

\* no pipeline has been constructed and no Timeout method has been called
NothingBuilt ==
    /\ pipelines = <<>>
    /\ levels = <<>>
    /\ jobParams = <<>>
    /\ device = NotADict
    /\ addedAction = NoAction
    /\ call = NoCall

\* no action has been added to the job's pipeline, validate_actions has not
\* been called, and the job's context is as Job.__init__ leaves it
NoValidation == [op |-> "none", raised |-> "none", message |-> <<>>]
\* a value held in the context or in a list: a reference to a list object
\* of the heap, or an immutable value (a str)
Ref(r) == [isref |-> TRUE, ref |-> r, atom |-> ""]
Atom(x) == [isref |-> FALSE, ref |-> 0, atom |-> x]
NoRead == [op |-> "none", ns |-> <<>>, key |-> "", deepcopy |-> FALSE,
           found |-> FALSE, value |-> Atom("")]
NoJob ==
    /\ acts = <<>>
    /\ context = [common |-> <<>>, named |-> <<>>]
    /\ vres = NoValidation
    /\ heap = <<>>
    /\ got = NoRead
    /\ running = 0

\* no run_command, call_protocols, wait_for_prompt, TestCliAction.run or
\* TestCli.accepts call has been made
NoCommand == [op |-> "none", n |-> 0, a |-> <<>>, exit |-> 0, output |-> "",
              allow_silent |-> FALSE, before |-> <<>>, returned |-> "None"]
NoProtocol == [params |-> <<>>, calls |-> <<>>, raised |-> <<>>]
NoPrompt == [state |-> "none"]
NoCli == [state |-> "none"]
NoAccepts == [op |-> "none", parameters |-> [has_cli_tests |-> FALSE, cli_tests |-> <<>>],
              returned |-> "None"]
NoTools ==
    /\ command = NoCommand
    /\ protocol = NoProtocol
    /\ prompt = NoPrompt
    /\ cli = NoCli
    /\ accepted = NoAccepts

Actions == DOMAIN tree \ {<<>>}

Ev(op, a, by, c) == [op |-> op, a |-> a, by |-> by, c |-> c]

\* mutant: an internal pipeline measures the deadline on the clock of
\* the root pipeline
FrameJobClock(p, c) ==
    [pipe |-> p, idx |-> 0, tstart |-> IF stack = <<>> THEN now ELSE stack[1].tstart,
     start |-> 0, conn |-> c, attempt |-> 0]

\* a run_actions call that begins: timeout_start = time.time()
Frame(p, c) == [pipe |-> p, idx |-> 0, tstart |-> now, start |-> 0,
                conn |-> c, attempt |-> 0]

Top == stack[Len(stack)]
\* the action the innermost run_actions call is executing
Cur == Top.pipe \o <<Top.idx>>
Pop(s) == SubSeq(s, 1, Len(s) - 1)
SetTop(s, f) == [s EXCEPT ![Len(s)] = f]

IsPrefix(p, q) == Len(p) <= Len(q) /\ SubSeq(q, 1, Len(p)) = p

\* Action.errors setter
SetError(errs, a, msg) ==
    IF msg # "" THEN [errs EXCEPT ![a] = Append(@, msg)] ELSE errs

HasPipeline(a) == tree[a].kind \in {"container", "retry"}

\* Pipeline.pipeline_cleanup of the internal pipeline of p, from child i on:
\* the cleanup() calls it makes, in order
RECURSIVE PipelineCleanupFrom(_, _)
PipelineCleanupFrom(p, i) ==
    IF i > tree[p].n THEN <<>>
    ELSE <<Ev("cleanup", p \o <<i>>, "pipeline_cleanup", NoConn)>>
         \o (IF HasPipeline(p \o <<i>>) THEN PipelineCleanupFrom(p \o <<i>>, 1) ELSE <<>>)
         \o PipelineCleanupFrom(p, i + 1)

pipeline_cleanup(p) == PipelineCleanupFrom(p, 1)

\* mutant: the first loop of cleanup_actions also calls cleanup() of the
\* root actions themselves
RECURSIVE RootCleanupFromAll(_)
RootCleanupFromAll(i) ==
    IF i > tree[<<>>].n THEN <<>>
    ELSE <<Ev("cleanup", <<i>>, "pipeline_cleanup", NoConn)>>
         \o (IF HasPipeline(<<i>>) THEN pipeline_cleanup(<<i>>) ELSE <<>>)
         \o RootCleanupFromAll(i + 1)

\* cleanup_actions, first loop: the internal pipelines of the root actions
RECURSIVE RootCleanupFrom(_)
RootCleanupFrom(i) ==
    IF i > tree[<<>>].n THEN <<>>
    ELSE (IF HasPipeline(<<i>>) THEN pipeline_cleanup(<<i>>) ELSE <<>>)
         \o RootCleanupFrom(i + 1)

\* cleanup_actions, second loop: run the root action named finalize
RECURSIVE RootFinalizeFrom(_, _)
RootFinalizeFrom(i, c) ==
    IF i > tree[<<>>].n THEN <<>>
    ELSE (IF tree[<<i>>].kind = "finalize"
          THEN <<Ev("run", <<i>>, "cleanup_actions", c)>> ELSE <<>>)
         \o RootFinalizeFrom(i + 1, c)

\* mutant: finalize is run before the internal pipelines are cleaned up
cleanup_actionsFinalizeFirst(p, c, msg) ==
    <<Ev("cleanup_actions", p, msg, c)>> \o RootFinalizeFrom(1, c) \o RootCleanupFrom(1)

\* Pipeline.cleanup_actions(connection, message) called by pipeline p: the
\* calls it makes, in order
cleanup_actions(p, c, msg) ==
    <<Ev("cleanup_actions", p, msg, c)>> \o RootCleanupFrom(1) \o RootFinalizeFrom(1, c)

\* Pipeline.cleanup_actions: child.errors = message on the finalize action
cleanup_actions_errors(errs, msg) ==
    [a \in DOMAIN errs |->
        IF Len(a) = 1 /\ tree[a].kind = "finalize" /\ msg # ""
        THEN Append(errs[a], msg) ELSE errs[a]]

\* what a diagnostic action's run returns
DiagnosticRun(c) == NoConn

\* Pipeline._diagnose: the diagnostics run for job.triggers, in order, up to
\* the first complaint without a diagnostic
RECURSIVE DiagnoseFrom(_, _)
DiagnoseFrom(i, c) ==
    IF i > Len(triggers) THEN <<>>
    ELSE IF triggers[i] \in Registered
         THEN <<Ev("diagnose", <<>>, triggers[i], c)>> \o DiagnoseFrom(i + 1, DiagnosticRun(c))
         ELSE <<Ev("no_diagnosis", <<>>, triggers[i], c)>>

\* _diagnose returns instead of raising RuntimeError
DiagnoseReturns == \A i \in 1..Len(triggers) : triggers[i] \in Registered

\* the effect of a sequence of calls on the actions' errors
RECURSIVE ApplyErrors(_, _)
ApplyErrors(errs, evs) ==
    IF evs = <<>> THEN errs
    ELSE LET e == Head(evs)
         IN ApplyErrors(IF e.op = "errors" THEN SetError(errs, e.a, e.by)
                        ELSE IF e.op = "cleanup_actions" THEN cleanup_actions_errors(errs, e.by)
                        ELSE errs,
                        Tail(evs))

\* mutant: the handler forgets action.cleanup()
BugHandlerNoCleanup(a, p, c) ==
    <<Ev("elapsed", a, "bug", c),
      Ev("errors", a, "traceback", c)>>
    \o cleanup_actions(p, c, "")
    \o <<Ev("raises", p, "RuntimeError", c)>>

\* run_actions, except (ValueError, ..., RuntimeError, AttributeError):
\* the calls made for action a of pipeline p, ending in raise RuntimeError
BugHandler(a, p, c) ==
    <<Ev("elapsed", a, "bug", c),
      Ev("errors", a, "traceback", c),
      Ev("cleanup", a, "handler", c)>>
    \o cleanup_actions(p, c, "")
    \o <<Ev("raises", p, "RuntimeError", c)>>

\* run_actions, except KeyboardInterrupt: ends in sys.exit(1)
CancelHandler(a, p, c) ==
    <<Ev("elapsed", a, "cancel", c)>>
    \o cleanup_actions(p, c, "Cancelled")
    \o <<Ev("exit", a, "1", c), Ev("raises", p, "SystemExit", c)>>

\* mutant: every pipeline, not only the root, calls cleanup_actions
DomainHandlerAlwaysCleanupActions(a, p, c, e) ==
    <<Ev("errors", a, e.msg, c),
      Ev("elapsed", a, "domain", c),
      Ev("boot-result", a, "domain", c),
      Ev("log_results", a, "domain", c)>>
    \o DiagnoseFrom(1, c)
    \o (IF DiagnoseReturns
        THEN <<Ev("cleanup", a, "handler", c)>>
             \o cleanup_actions(p, c, e.msg)
             \o <<Ev("raises", p, e.type, c)>>
        ELSE <<Ev("raises", p, "RuntimeError", c)>>)

\* run_actions, except (JobError, InfrastructureError) as exc: ends in raise,
\* unless _diagnose raised RuntimeError first
DomainHandler(a, p, c, e) ==
    <<Ev("errors", a, e.msg, c),
      Ev("elapsed", a, "domain", c),
      Ev("boot-result", a, "domain", c),
      Ev("log_results", a, "domain", c)>>
    \o DiagnoseFrom(1, c)
    \o (IF DiagnoseReturns
        THEN <<Ev("cleanup", a, "handler", c)>>
             \o (IF p = <<>> THEN cleanup_actions(p, c, e.msg) ELSE <<>>)
             \o <<Ev("raises", p, e.type, c)>>
        ELSE <<Ev("raises", p, "RuntimeError", c)>>)

\* "Job '%s' timed out after %s seconds" % (name, int(self.job.timeout.duration))
JobTimeoutMsg == "Job timed out after " \o ToString(jobTimeout) \o " seconds"

\* Timeout._timed_out of the timeout of action a:
\* "%s timed out after %s seconds" % (self.name, int(self.duration))
TimedOutMsg(a) ==
    tree[a].kind \o " timed out after " \o ToString(duration[a]) \o " seconds"

\* mutant: the job timeout branch raises without running finalize
JobTimeoutBranchNoFinalize(a, p, c) ==
    <<Ev("errors", a, JobTimeoutMsg, c), Ev("raises", p, "JobError", c)>>

\* run_actions, the job timeout branch before action a of pipeline p
JobTimeoutBranch(a, p, c) ==
    LET final == <<tree[<<>>].n>>
    IN <<Ev("errors", a, JobTimeoutMsg, c)>>
       \o (IF tree[final].kind = "finalize"
           THEN <<Ev("run", final, "job_timeout", c), Ev("raises", p, "JobError", c)>>
           ELSE <<Ev("raises", p, "RuntimeError", c)>>)

\* the error a sequence of calls ends with
Raised(evs) == evs[Len(evs)].by

\* mutant: the exception passes the run() of a retry wrapper unseen
PopRaisePastRetry(e) ==
    /\ exc' = e
    /\ stack' = Pop(stack)
    /\ IF Len(stack) = 1
       THEN pc' = "done" /\ outcome' = e.type
       ELSE pc' = "raise" /\ outcome' = outcome

\* mutant: the exception is dropped and the loop goes on
PopRaiseSwallowed(e) ==
    /\ exc' = NoExc
    /\ stack' = stack
    /\ pc' = "loop"
    /\ outcome' = outcome

\* an exception leaves the innermost run_actions call: it ends the job, or
\* arrives in the run() of the action that owns the pipeline
PopRaise(e) ==
    /\ exc' = e
    /\ stack' = Pop(stack)
    /\ IF Len(stack) = 1
       THEN pc' = "done" /\ outcome' = e.type
       ELSE /\ outcome' = outcome
            /\ pc' = IF tree[stack[Len(stack) - 1].pipe \o <<stack[Len(stack) - 1].idx>>].kind = "retry"
                     THEN "retryexc" ELSE "raise"

\* mutant: the deadline test allows one more second
ExpiredLate(f) == jobTimeout # 0 /\ now > f.tstart + jobTimeout + 1

\* the job-level deadline test at the head of the loop
Expired(f) == jobTimeout # 0 /\ now > f.tstart + jobTimeout

\* no run_actions call has been made: the state of a job after construction
EngineIdle ==
    /\ stack = <<>>
    /\ pc = "idle"
    /\ exc = NoExc
    /\ retval = NoConn
    /\ now = 0
    /\ alarm = NoAlarm
    /\ handler = "default"
    /\ errors = [a \in Actions |-> <<>>]
    /\ elapsed = [a \in Actions |-> -1]
    /\ triggers = <<>>
    /\ bootResult = "unset"
    /\ log = <<>>
    /\ outcome = "running"

Init ==
    /\ tree \in Trees
    /\ jobTimeout \in JobTimeouts
    /\ EngineIdle
    /\ duration = [a \in Actions |-> ACTION_TIMEOUT]
    /\ alarmAt = NoTime
    /\ NothingBuilt
    /\ NoJob
    /\ NoTools

\* the executor calls job.pipeline.run_actions(None)
JobRun ==
    /\ pc = "idle"
    /\ stack' = <<Frame(<<>>, NoConn)>>
    /\ pc' = "loop"
    /\ log' = Append(log, Ev("run_actions", <<>>, "job", NoConn))
    /\ UNCHANGED <<tree, jobTimeout, exc, retval, now, alarm, handler, errors,
                   elapsed, triggers, bootResult, outcome>>
    /\ UNCHANGED <<timerVars, buildVars, jobVars, toolVars>>

\* one loop iteration up to the call of action.run, without the arming of
\* the alarm's time; Action.run of an action with an internal pipeline calls
\* its run_actions
BeginCore ==
    /\ pc = "loop"
    /\ Top.idx < tree[Top.pipe].n
    /\ ~Expired(Top)
    /\ LET a == Top.pipe \o <<Top.idx + 1>>
           f == [Top EXCEPT !.idx = Top.idx + 1, !.start = now, !.attempt = 1]
       IN /\ handler' = IF Top.pipe = <<>> THEN "cancelling" ELSE handler
          /\ alarm' = a
          /\ IF HasPipeline(a)
             THEN /\ stack' = Append(SetTop(stack, f), Frame(a, Top.conn))
                  /\ pc' = "loop"
                  /\ log' = log \o <<Ev("start", a, "loop", Top.conn),
                                     Ev("run", a, "loop", Top.conn),
                                     Ev("run_actions", a, "run", Top.conn)>>
             ELSE /\ stack' = SetTop(stack, f)
                  /\ pc' = "run"
                  /\ log' = log \o <<Ev("start", a, "loop", Top.conn),
                                     Ev("run", a, "loop", Top.conn)>>
    /\ UNCHANGED <<tree, jobTimeout, exc, retval, now, errors, elapsed,
                   triggers, bootResult, outcome>>

\* one loop iteration up to the call of action.run; the time of the alarm
\* is not tracked
BeginAction ==
    /\ BeginCore
    /\ UNCHANGED <<timerVars, buildVars, jobVars, toolVars>>

\* the body of a leaf action's run returns, a new connection or None
LeafReturn(fresh, d) ==
    /\ pc = "run"
    /\ now + d <= MaxTime
    /\ now' = now + d
    /\ retval' = IF fresh THEN Top.conn + 1 ELSE NoConn
    /\ pc' = "ret"
    /\ log' = Append(log, Ev("return", Cur, "run", retval'))
    /\ UNCHANGED <<tree, jobTimeout, stack, exc, alarm, handler, errors,
                   elapsed, triggers, bootResult, outcome>>
    /\ UNCHANGED <<timerVars, buildVars, jobVars, toolVars>>

\* the body of a leaf action's run raises, after appending complaints cs to
\* job.triggers
LeafRaise(e, cs, d) ==
    /\ pc = "run"
    /\ tree[Cur].kind = "leaf"
    /\ now + d <= MaxTime
    /\ now' = now + d
    /\ exc' = e
    /\ triggers' = triggers \o cs
    /\ pc' = "raise"
    /\ log' = Append(log, Ev("raise", Cur, e.type, Top.conn))
    /\ UNCHANGED <<tree, jobTimeout, stack, retval, alarm, handler, errors,
                   elapsed, bootResult, outcome>>
    /\ UNCHANGED <<timerVars, buildVars, jobVars, toolVars>>

\* the action's SIGALRM fires during run, after the run has appended
\* complaints cs to job.triggers: Timeout._timed_out
AlarmFires(cs) ==
    /\ pc = "run"
    /\ tree[Cur].kind = "leaf"
    /\ alarm = Cur
    /\ alarm' = NoAlarm
    /\ triggers' = triggers \o cs
    /\ exc' = Exc("JobError", TimedOutMsg(Cur))
    /\ pc' = "raise"
    /\ log' = log \o <<Ev("alarm", Cur, TimedOutMsg(Cur), Top.conn),
                       Ev("raise", Cur, "JobError", Top.conn)>>
    /\ UNCHANGED <<tree, jobTimeout, stack, retval, now, handler, errors,
                   elapsed, bootResult, outcome>>
    /\ UNCHANGED <<timerVars, buildVars, jobVars, toolVars>>

\* SIGINT or SIGTERM is delivered during run: cancelling_handler of the root
\* pipeline
SignalDelivered ==
    /\ pc = "run"
    /\ handler = "cancelling"
    /\ LET calls == <<Ev("signal", Cur, "signal", NoConn)>>
                    \o cleanup_actions(<<>>, NoConn, "Cancelled")
                    \o <<Ev("raise", Cur, "KeyboardInterrupt", Top.conn)>>
       IN /\ log' = log \o calls
          /\ errors' = ApplyErrors(errors, calls)
    /\ handler' = "default"
    /\ exc' = Exc("KeyboardInterrupt", "")
    /\ pc' = "raise"
    /\ UNCHANGED <<tree, jobTimeout, stack, retval, now, alarm, elapsed,
                   triggers, bootResult, outcome>>
    /\ UNCHANGED <<timerVars, buildVars, jobVars, toolVars>>

\* mutant: the returned value always replaces the connection
NextConnectionAlways(connection, new_connection) == new_connection

\* run_actions: if new_connection: connection = new_connection
NextConnection(connection, new_connection) ==
    IF new_connection # NoConn THEN new_connection ELSE connection

\* action.run returned to run_actions: the alarm is cleared, the duration
\* and the results are logged, the connection is kept
SuccessCore ==
    /\ pc = "ret"
    /\ alarm' = NoAlarm
    /\ elapsed' = [elapsed EXCEPT ![Cur] = now - Top.start]
    /\ log' = log \o <<Ev("duration", Cur, "loop", retval),
                       Ev("log_results", Cur, "loop", retval)>>
    /\ stack' = SetTop(stack, [Top EXCEPT !.conn = NextConnection(@, retval)])
    /\ pc' = "loop"
    /\ UNCHANGED <<tree, jobTimeout, exc, retval, now, handler, errors,
                   triggers, bootResult, outcome>>

\* action.run returned to run_actions
HandleSuccess ==
    /\ SuccessCore
    /\ UNCHANGED <<timerVars, buildVars, jobVars, toolVars>>

\* run_actions returns the final connection
ReturnFromPipeline ==
    /\ pc = "loop"
    /\ Top.idx = tree[Top.pipe].n
    /\ retval' = Top.conn
    /\ stack' = Pop(stack)
    /\ log' = Append(log, Ev("returned", Top.pipe, "run_actions", Top.conn))
    /\ IF Len(stack) = 1
       THEN pc' = "done" /\ outcome' = "ok"
       ELSE pc' = "ret" /\ outcome' = outcome
    /\ UNCHANGED <<tree, jobTimeout, exc, now, alarm, handler, errors,
                   elapsed, triggers, bootResult>>
    /\ UNCHANGED <<timerVars, buildVars, jobVars, toolVars>>

\* the job-level deadline has passed at the head of the loop
JobTimeoutExpired ==
    /\ pc = "loop"
    /\ Top.idx < tree[Top.pipe].n
    /\ Expired(Top)
    /\ LET calls == JobTimeoutBranch(Top.pipe \o <<Top.idx + 1>>, Top.pipe, Top.conn)
       IN /\ log' = log \o calls
          /\ errors' = ApplyErrors(errors, calls)
          /\ PopRaise(Exc(Raised(calls), JobTimeoutMsg))
    /\ UNCHANGED <<tree, jobTimeout, retval, now, alarm, handler, elapsed,
                   triggers, bootResult>>
    /\ UNCHANGED <<timerVars, buildVars, jobVars, toolVars>>

\* action.run raised one of the errors the first except clause names
HandleBug ==
    /\ pc = "raise"
    /\ exc.type \in CaughtTypes
    /\ elapsed' = [elapsed EXCEPT ![Cur] = now - Top.start]
    /\ LET calls == <<Ev("raised", Cur, exc.type, Top.conn)>>
                    \o BugHandler(Cur, Top.pipe, Top.conn)
       IN /\ log' = log \o calls
          /\ errors' = ApplyErrors(errors, calls)
          /\ PopRaise(Exc(Raised(calls), "traceback"))
    /\ UNCHANGED <<tree, jobTimeout, retval, now, alarm, handler, triggers,
                   bootResult>>
    /\ UNCHANGED <<timerVars, buildVars, jobVars, toolVars>>

\* action.run raised KeyboardInterrupt
HandleCancel ==
    /\ pc = "raise"
    /\ exc.type = "KeyboardInterrupt"
    /\ elapsed' = [elapsed EXCEPT ![Cur] = now - Top.start]
    /\ LET calls == <<Ev("raised", Cur, exc.type, Top.conn)>>
                    \o CancelHandler(Cur, Top.pipe, Top.conn)
       IN /\ log' = log \o calls
          /\ errors' = ApplyErrors(errors, calls)
          /\ PopRaise(Exc(Raised(calls), "1"))
    /\ UNCHANGED <<tree, jobTimeout, retval, now, alarm, handler, triggers,
                   bootResult>>
    /\ UNCHANGED <<timerVars, buildVars, jobVars, toolVars>>

\* action.run raised JobError or InfrastructureError
HandleDomain ==
    /\ pc = "raise"
    /\ exc.type \in DomainTypes
    /\ elapsed' = [elapsed EXCEPT ![Cur] = now - Top.start]
    /\ bootResult' = IF bootResult = "unset" THEN "failed" ELSE bootResult
    /\ triggers' = IF DiagnoseReturns THEN <<>> ELSE triggers
    /\ LET calls == <<Ev("raised", Cur, exc.type, Top.conn)>>
                    \o DomainHandler(Cur, Top.pipe, Top.conn, exc)
       IN /\ log' = log \o calls
          /\ errors' = ApplyErrors(errors, calls)
          /\ PopRaise(Exc(Raised(calls),
                          IF DiagnoseReturns THEN exc.msg ELSE "no diagnosis"))
    /\ UNCHANGED <<tree, jobTimeout, retval, now, alarm, handler>>
    /\ UNCHANGED <<timerVars, buildVars, jobVars, toolVars>>

\* action.run raised an error no except clause of run_actions names
Propagate ==
    /\ pc = "raise"
    /\ exc.type \in UncaughtTypes \cup {"SystemExit"}
    /\ log' = log \o <<Ev("raised", Cur, exc.type, Top.conn),
                       Ev("raises", Top.pipe, exc.type, Top.conn)>>
    /\ PopRaise(exc)
    /\ UNCHANGED <<tree, jobTimeout, retval, now, alarm, handler, errors,
                   elapsed, triggers, bootResult>>
    /\ UNCHANGED <<timerVars, buildVars, jobVars, toolVars>>

\* RetryAction.run: a domain error of attempt k < max_retries is swallowed,
\* the subtree's errors are cleared, boot-result is reset, and the internal
\* pipeline is run again
RetryAbsorb ==
    /\ pc = "retryexc"
    /\ exc.type \in DomainTypes
    /\ Top.attempt < tree[Cur].max_retries
    /\ errors' = [a \in DOMAIN errors |->
                     IF IsPrefix(Cur, a) /\ a # Cur THEN <<>> ELSE errors[a]]
    /\ bootResult' = "unset"
    /\ stack' = Append(SetTop(stack, [Top EXCEPT !.attempt = @ + 1]), Frame(Cur, Top.conn))
    /\ exc' = NoExc
    /\ pc' = "loop"
    /\ log' = Append(log, Ev("run_actions", Cur, "retry", Top.conn))
    /\ UNCHANGED <<tree, jobTimeout, retval, now, alarm, handler, elapsed,
                   triggers, outcome>>
    /\ UNCHANGED <<timerVars, buildVars, jobVars, toolVars>>

\* RetryAction.run: any other error, and a domain error of the last attempt,
\* is re-raised
RetryReraise ==
    /\ pc = "retryexc"
    /\ ~(exc.type \in DomainTypes /\ Top.attempt < tree[Cur].max_retries)
    /\ pc' = "raise"
    /\ UNCHANGED <<tree, jobTimeout, stack, exc, retval, now, alarm, handler,
                   errors, elapsed, triggers, bootResult, log, outcome>>
    /\ UNCHANGED <<timerVars, buildVars, jobVars, toolVars>>

\* the errors the body of a run may raise
LeafErrors ==
    {Exc(t, "failed") : t \in DomainTypes \cup {"RuntimeError", "KeyError"} \cup UncaughtTypes}
    \cup {Exc("KeyboardInterrupt", "")}

\* the complaints a failing run may have queued
TriggerChoices ==
    {<<>>, <<"known">>, <<"missing">>, <<"known", "missing">>, <<"known", "known">>}

Next ==
    \/ JobRun
    \/ BeginAction
    \/ \E fresh \in BOOLEAN, d \in 0..1 : LeafReturn(fresh, d)
    \/ \E e \in LeafErrors, cs \in TriggerChoices, d \in 0..1 :
          /\ (cs # <<>> => e.type \in DomainTypes)
          /\ LeafRaise(e, cs, d)
    \/ \E cs \in TriggerChoices : AlarmFires(cs)
    \/ SignalDelivered
    \/ HandleSuccess
    \/ ReturnFromPipeline
    \/ JobTimeoutExpired
    \/ HandleBug
    \/ HandleCancel
    \/ HandleDomain
    \/ Propagate
    \/ RetryAbsorb
    \/ RetryReraise

Spec == Init /\ [][Next]_vars

(***************************************************************************)
(* Reading the history                                                     *)
(***************************************************************************)
\* the root actions named finalize
FinalizeActions == {a \in Actions : Len(a) = 1 /\ tree[a].kind = "finalize"}

\* action a is an action of pipeline p
ChildOf(a, p) == Len(a) = Len(p) + 1 /\ IsPrefix(p, a)

RunsOf(a) == {i \in DOMAIN log : log[i].op = "run" /\ log[i].a = a}
LoopRunsOf(a) == {i \in RunsOf(a) : log[i].by = "loop"}
CleanupsOf(a) == {i \in DOMAIN log : log[i].op = "cleanup" /\ log[i].a = a}
\* run() of a raised into run_actions
RaisedOf(a) == {i \in DOMAIN log : log[i].op = "raised" /\ log[i].a = a}
\* run() of a returned to run_actions
ReturnedOf(a) == {i \in DOMAIN log : log[i].op = "duration" /\ log[i].a = a}
CleanupActionsCalls == {i \in DOMAIN log : log[i].op = "cleanup_actions"}

\* the start of the run_actions call of pipeline p that is active at index j
CallStart(p, j) ==
    CHOOSE s \in 1..j :
        /\ log[s].op = "run_actions" /\ log[s].a = p
        /\ \A t \in (s + 1)..j : ~(log[t].op = "run_actions" /\ log[t].a = p)

\* the end of the handler that starts at index i: run_actions raises
HandlerEnd(i) ==
    CHOOSE j \in i..Len(log) :
        /\ log[j].op = "raises"
        /\ \A t \in i..(j - 1) : log[t].op # "raises"

\* a failure reached the caller of the root pipeline: run_actions raised
\* JobError or InfrastructureError (an action's domain error, the job
\* timeout) or RuntimeError (an unexpected error, a missing diagnostic)
FailureReachedRoot ==
    pc = "done" /\ outcome \in {"JobError", "InfrastructureError", "RuntimeError"}

(***************************************************************************)
(* C1: after any failure that reaches the root pipeline (domain error,     *)
(* unexpected error, job timeout or missing diagnostic, at any depth),     *)
(* cleanup() has been called on every action whose run() was entered and   *)
(* the root action named finalize has been run exactly once.               *)
(***************************************************************************)
C1_CleanupEnteredAndFinalizeOnce ==
    FailureReachedRoot =>
        /\ \A a \in Actions \ FinalizeActions : LoopRunsOf(a) # {} => CleanupsOf(a) # {}
        /\ \A f \in FinalizeActions : Cardinality(RunsOf(f)) = 1

(***************************************************************************)
(* C2: within one run_actions call the loop invokes the actions' run() in  *)
(* list order, run() of action k+1 starts only after run() of action k     *)
(* returned without raising, and once an action's run() has raised no      *)
(* later action of that pipeline is started by that call.                  *)
(***************************************************************************)
C2_SequentialInListOrder ==
    \A j \in DOMAIN log :
        (log[j].op = "run" /\ log[j].by = "loop") =>
            LET a == log[j].a
                p == Pop(a)
                k == a[Len(a)]
                s == CallStart(p, j)
                started == {t \in s..j : log[t].op = "run" /\ log[t].by = "loop"
                                         /\ ChildOf(log[t].a, p)}
            IN /\ \A t \in started :
                     log[t].a = p \o <<Cardinality({u \in started : u <= t})>>
               /\ \A m \in 1..(k - 1) :
                     \E r \in ReturnedOf(p \o <<m>>) :
                         /\ s < r /\ r < j
                         /\ \A t \in LoopRunsOf(p \o <<m>>) : t > s => t < r
               /\ \A t \in s..j : ~(log[t].op = "raised" /\ ChildOf(log[t].a, p))

\* B of [A, B, C, finalize] raised JobError after A returned: C never ran
C2_Witness ==
    /\ tree = FlatTree
    /\ pc = "done"
    /\ ReturnedOf(<<1>>) # {}
    /\ \E i \in RaisedOf(<<2>>) : log[i].by = "JobError"
    /\ RunsOf(<<3>>) = {}

(***************************************************************************)
(* C4: cleanup() of an action is invoked only if that action's own run()   *)
(* raised: never on an action whose run() returned or was never entered.   *)
(***************************************************************************)
C4_CleanupOnlyAfterOwnRunRaised ==
    \A i \in DOMAIN log :
        log[i].op = "cleanup" => \E j \in RaisedOf(log[i].a) : j < i

(***************************************************************************)
(* C3: in a root pipeline [A, B, C, finalize] where A.run succeeds and     *)
(* B.run raises JobError that run_actions re-raises to its caller:         *)
(* A.cleanup is not called, B.cleanup is called, cleanup_actions runs and  *)
(* finalize.run is invoked, whether or not A and B own internal pipelines. *)
(***************************************************************************)
C3_Scenario ==
    /\ tree \in {FlatTree, NestedTree}
    /\ pc = "done" /\ outcome = "JobError"
    /\ ReturnedOf(<<1>>) # {}
    /\ \E i \in RaisedOf(<<2>>) : log[i].by = "JobError"

TreatedAsBug(i) ==
    LET a == log[i].a
        e == HandlerEnd(i)
    IN /\ log[e].by = "RuntimeError" /\ log[e].a = Pop(a)
       /\ \E x, y, z \in (i + 1)..(e - 1) :
             /\ x < y /\ y < z
             /\ log[x].op = "errors" /\ log[x].a = a /\ log[x].by # ""
             /\ log[y].op = "cleanup" /\ log[y].a = a /\ log[y].by = "handler"
             /\ log[z].op = "cleanup_actions" /\ log[z].a = Pop(a)
             /\ log[z].by = "" /\ log[z].c = log[i].c

C5_EveryOtherErrorTreatedAsBug ==
    \A i \in DOMAIN log :
        (log[i].op = "raised"
         /\ log[i].by \notin DomainTypes \cup {"KeyboardInterrupt", "SystemExit"})
        => TreatedAsBug(i)

(***************************************************************************)
(* C5 amended: whenever run() raises one of ValueError, KeyError,          *)
(* NameError, SyntaxError, OSError, TypeError, RuntimeError or             *)
(* AttributeError, the engine appends to the action's errors, calls its    *)
(* cleanup(), calls cleanup_actions(connection, None) and raises           *)
(* RuntimeError to the caller; any other error that is not JobError,       *)
(* InfrastructureError or cancellation leaves run_actions unchanged, with  *)
(* no error recorded and neither cleanup() nor cleanup_actions called.     *)
(***************************************************************************)
C5_NamedErrorsTreatedAsBug ==
    \A i \in DOMAIN log :
        log[i].op = "raised" =>
            /\ log[i].by \in {"ValueError", "KeyError", "NameError", "SyntaxError",
                              "OSError", "TypeError", "RuntimeError", "AttributeError"}
                  => TreatedAsBug(i)
            /\ log[i].by \in {"TestError", "IndexError"}
                  => log[i + 1].op = "raises" /\ log[i + 1].by = log[i].by

\* a nested action raised one of the named errors, and the root pipeline
\* then handled the RuntimeError of its parent
C5_Witness ==
    \E i, j \in DOMAIN log :
        /\ log[i].op = "raised" /\ log[i].by = "KeyError" /\ Len(log[i].a) = 2
        /\ log[j].op = "raised" /\ log[j].by = "RuntimeError" /\ Len(log[j].a) = 1

(***************************************************************************)
(* C6: when run() raises JobError or InfrastructureError the engine, in    *)
(* this order and skipping none, records the message in the action's       *)
(* errors, sets elapsed_time, ensures boot-result has a value, logs the    *)
(* results, runs _diagnose, calls the action's cleanup(), (root pipeline   *)
(* only) calls cleanup_actions(connection, message), and then re-raises    *)
(* the same error to the caller.                                           *)
(***************************************************************************)
C6_DomainStepsInOrder ==
    \A i \in DOMAIN log :
        (log[i].op = "raised" /\ log[i].by \in DomainTypes) =>
            LET a == log[i].a
                e == HandlerEnd(i)
            IN /\ log[i + 1].op = "errors" /\ log[i + 1].a = a
               /\ log[i + 2].op = "elapsed" /\ log[i + 2].a = a
               /\ log[i + 3].op = "boot-result"
               /\ log[i + 4].op = "log_results" /\ log[i + 4].a = a
               /\ \E y \in (i + 5)..(e - 1) :
                     /\ \A t \in (i + 5)..(y - 1) : log[t].op = "diagnose"
                     /\ log[y].op = "cleanup" /\ log[y].a = a /\ log[y].by = "handler"
                     /\ IF Len(a) = 1
                        THEN /\ log[y + 1].op = "cleanup_actions"
                             /\ log[y + 1].by = log[i + 1].by
                             /\ log[y + 1].c = log[i].c
                        ELSE y + 1 = e
               /\ log[e].by = log[i].by

AttemptsOf(r) == {i \in DOMAIN log : log[i].op = "run_actions" /\ log[i].a = r}

C8_BoundedRetries ==
    \A r \in Actions :
        tree[r].kind = "retry" =>
            /\ Cardinality(AttemptsOf(r)) <= tree[r].max_retries
            /\ \A i \in DOMAIN log :
                  /\ (log[i].op = "returned" /\ log[i].a = r) =>
                        /\ \A s \in AttemptsOf(r) : s < i
                        /\ i < Len(log) => log[i + 1].op = "duration" /\ log[i + 1].a = r
                  /\ (log[i].op = "raises" /\ log[i].a = r /\ log[i].by \in DomainTypes) =>
                        IF Cardinality({s \in AttemptsOf(r) : s < i}) < tree[r].max_retries
                        THEN /\ i = Len(log) => pc = "retryexc"
                             /\ i < Len(log) => log[i + 1].op = "run_actions" /\ log[i + 1].a = r
                                                /\ log[i + 1].by = "retry"
                        ELSE /\ \A s \in AttemptsOf(r) : s < i
                             /\ i < Len(log) => log[i + 1].op = "raised" /\ log[i + 1].a = r
                                                /\ log[i + 1].by = log[i].by

\* failure_retry 3: the inner action failed twice, then succeeded, and the
\* job returned normally after exactly three inner runs
C8_Witness ==
    /\ pc = "done" /\ outcome = "ok"
    /\ \E r \in Actions :
          /\ tree[r].kind = "retry" /\ tree[r].max_retries = 3
          /\ Cardinality(AttemptsOf(r)) = 3
          /\ Cardinality({i \in DOMAIN log : log[i].op = "raises" /\ log[i].a = r}) = 2
          /\ Cardinality(LoopRunsOf(r \o <<1>>)) = 3

(***************************************************************************)
(* C9: cancellation (SIGINT/SIGTERM or KeyboardInterrupt) during action k: *)
(* no further action starts, the running action's cleanup() is called,     *)
(* cleanup_actions runs over the whole tree and the process exits non-zero,*)
(* for a root-level running action as well as for a nested one.            *)
(***************************************************************************)
C9_CancellationCleansRunningAction ==
    \A i \in DOMAIN log :
        (log[i].op = "raise" /\ log[i].by = "KeyboardInterrupt" /\ pc = "done") =>
            /\ outcome = "SystemExit"
            /\ CleanupsOf(log[i].a) # {}
            /\ \E y \in CleanupActionsCalls : y > i
            /\ \A t \in (i + 1)..Len(log) : ~(log[t].op = "run" /\ log[t].by = "loop")

(***************************************************************************)
(* C10: the job-level timeout is checked only before starting an action:   *)
(* if the deadline has passed when action k is about to start, a timeout   *)
(* error is recorded on action k, the loop does not invoke its run(), the  *)
(* last root action is run directly if it is named finalize (otherwise     *)
(* RuntimeError is raised) and JobError is raised; an action that is       *)
(* running when the deadline passes completes.                             *)
(***************************************************************************)
C10_Step ==
    LET added == SubSeq(log', Len(log) + 1, Len(log'))
        passed == jobTimeout # 0 /\ now > Top.tstart + jobTimeout
    IN /\ (pc = "loop" /\ Top.idx < tree[Top.pipe].n /\ passed) =>
             LET a == Top.pipe \o <<Top.idx + 1>>
                 final == <<tree[<<>>].n>>
                 runs == {t \in DOMAIN added : added[t].op = "run"}
             IN /\ errors'[a] = Append(errors[a], JobTimeoutMsg)
                /\ stack' = Pop(stack)
                /\ \A t \in runs : added[t].by = "job_timeout" /\ added[t].a = final
                /\ IF tree[final].kind = "finalize"
                   THEN Cardinality(runs) = 1 /\ exc'.type = "JobError"
                   ELSE runs = {} /\ exc'.type = "RuntimeError"
       /\ (added # <<>> /\ added[1].op = "errors" /\ added[1].by = JobTimeoutMsg) =>
             pc = "loop" /\ passed
       /\ pc = "run" => pc' \in {"ret", "raise"} /\ stack' = stack
       /\ (pc = "ret" /\ passed) =>
             pc' = "loop" /\ Len(stack') = Len(stack) /\ elapsed'[Cur] = now - Top.start

MaxTimeout == 2
TimerMaxTime == 4

\* [sleep, finalize]
SleepTree ==
    (<<>> :> Root(2)) @@ (<<1>> :> Leaf) @@ (<<2>> :> Finalize)

\* [P[P1, P2], finalize]: P owns an internal pipeline
ParentTree ==
    (<<>> :> Root(2)) @@ (<<1>> :> Container(2)) @@ (<<1, 1>> :> Leaf) @@
    (<<1, 2>> :> Leaf) @@ (<<2>> :> Finalize)

TimerTrees == {SleepTree, ParentTree}

\* timeout.duration of an action: set by the job, or the default
TimerDurations == (1..MaxTimeout) \cup {ACTION_TIMEOUT}

\* job.timeout.duration: none, or two seconds
TimerJobTimeouts == {0, 2}

TimerInit ==
    /\ tree \in TimerTrees
    /\ jobTimeout \in TimerJobTimeouts
    /\ EngineIdle
    /\ duration \in [Actions -> TimerDurations]
    /\ \A a \in Actions : tree[a].kind = "finalize" => duration[a] = ACTION_TIMEOUT
    /\ alarmAt = NoTime
    /\ NothingBuilt
    /\ NoJob
    /\ NoTools

\* one loop iteration up to the call of action.run: action_timeout arms the
\* alarm, replacing any alarm that is pending
TimedBegin ==
    /\ BeginCore
    /\ alarmAt' = now + duration[Top.pipe \o <<Top.idx + 1>>]
    /\ UNCHANGED <<duration, buildVars, jobVars, toolVars>>

\* the body of a leaf action's run returns after d seconds
TimedReturn(d) ==
    /\ pc = "run"
    /\ now + d <= TimerMaxTime
    /\ alarm # NoAlarm => now + d <= alarmAt
    /\ now' = now + d
    /\ retval' = NoConn
    /\ pc' = "ret"
    /\ log' = Append(log, Ev("return", Cur, "run", NoConn))
    /\ UNCHANGED <<tree, jobTimeout, stack, exc, alarm, handler, errors,
                   elapsed, triggers, bootResult, outcome>>
    /\ UNCHANGED <<timerVars, buildVars, jobVars, toolVars>>

\* the body of a leaf action's run raises JobError after d seconds
TimedRaise(d) ==
    /\ pc = "run"
    /\ tree[Cur].kind = "leaf"
    /\ now + d <= TimerMaxTime
    /\ alarm # NoAlarm => now + d <= alarmAt
    /\ now' = now + d
    /\ exc' = Exc("JobError", "failed")
    /\ pc' = "raise"
    /\ log' = Append(log, Ev("raise", Cur, "JobError", Top.conn))
    /\ UNCHANGED <<tree, jobTimeout, stack, retval, alarm, handler, errors,
                   elapsed, triggers, bootResult, outcome>>
    /\ UNCHANGED <<timerVars, buildVars, jobVars, toolVars>>

\* the pending alarm becomes due while the body of a leaf action's run is
\* executing, after the run has appended complaints cs to job.triggers:
\* Timeout._timed_out of the timeout that armed it
TimedAlarmFires(cs) ==
    /\ pc = "run"
    /\ tree[Cur].kind = "leaf"
    /\ alarm # NoAlarm
    /\ alarmAt <= TimerMaxTime
    /\ now' = alarmAt
    /\ alarm' = NoAlarm
    /\ alarmAt' = NoTime
    /\ triggers' = triggers \o cs
    /\ exc' = Exc("JobError", TimedOutMsg(alarm))
    /\ pc' = "raise"
    /\ log' = log \o <<Ev("alarm", alarm, TimedOutMsg(alarm), Top.conn),
                       Ev("raise", Cur, "JobError", Top.conn)>>
    /\ UNCHANGED <<tree, jobTimeout, stack, retval, handler, errors,
                   elapsed, bootResult, outcome, duration>>
    /\ UNCHANGED <<buildVars, jobVars, toolVars>>

\* action.run returned to run_actions: leaving action_timeout clears the
\* alarm
TimedSuccess ==
    /\ SuccessCore
    /\ alarmAt' = NoTime
    /\ UNCHANGED <<duration, buildVars, jobVars, toolVars>>

TimerNext ==
    \/ JobRun
    \/ TimedBegin
    \/ \E d \in 0..TimerMaxTime : TimedReturn(d)
    \/ \E d \in 0..TimerMaxTime : TimedRaise(d)
    \/ \E cs \in {<<>>, <<"missing">>} : TimedAlarmFires(cs)
    \/ TimedSuccess
    \/ ReturnFromPipeline
    \/ JobTimeoutExpired
    \/ HandleDomain
    \/ HandleBug

TimerSpec == TimerInit /\ [][TimerNext]_vars

(***************************************************************************)
(* Reading the history of a timed run                                      *)
(***************************************************************************)
\* the small grace the timing claims allow, in seconds
Grace == 1

\* a run_actions call took the job timeout branch
JobTimedOut == \E i \in DOMAIN log : log[i].op = "errors" /\ log[i].by = JobTimeoutMsg

\* the body of the run of action a is executing: a is the current action of
\* an active run_actions call and its run neither returned nor raised
BodyExecuting(a) ==
    \E k \in 1..Len(stack) :
        /\ stack[k].idx > 0
        /\ stack[k].pipe \o <<stack[k].idx>> = a
        /\ k < Len(stack) \/ pc \in {"run", "ret"}

\* the job of [sleep, finalize] with a job timeout of two seconds ended by
\* the job timeout
C11_Scenario ==
    /\ tree = SleepTree /\ jobTimeout = 2
    /\ pc = "done" /\ JobTimedOut

(***************************************************************************)
(* C11 as claimed: expiry of a timeout raises the JobTimeout category      *)
(* reporting the timeout's duration: for timeouts.job of 2 seconds and     *)
(* actions [sleep, finalize] with a sleep longer than the timeout, run     *)
(* raises JobTimeout about 2 seconds after it began and finalize.run is    *)
(* invoked.                                                                *)
(***************************************************************************)
C11_JobTimeoutRaisedAtDeadline ==
    C11_Scenario =>
        /\ outcome = "JobTimeout"
        /\ exc.msg = JobTimeoutMsg
        /\ now <= jobTimeout + Grace
        /\ RunsOf(<<2>>) # {}

(***************************************************************************)
(* C11 amended: the job timeout is raised as JobError, whose message       *)
(* reports the job timeout's duration, and only once the action that was   *)
(* running at the deadline has completed: for timeouts.job of 2 seconds    *)
(* and actions [sleep, finalize], run raises JobError when the sleep has   *)
(* returned, after more than 2 seconds, the error is recorded on finalize, *)
(* and finalize.run is invoked exactly once, by the timeout branch.        *)
(***************************************************************************)
C11_JobErrorOnceRunningActionCompleted ==
    C11_Scenario =>
        /\ outcome = "JobError"
        /\ exc = Exc("JobError", "Job timed out after 2 seconds")
        /\ ReturnedOf(<<1>>) # {}
        /\ now > jobTimeout /\ now = elapsed[<<1>>]
        /\ errors[<<2>>] = <<"Job timed out after 2 seconds">>
        /\ Cardinality(RunsOf(<<2>>)) = 1
        /\ \A i \in RunsOf(<<2>>) : log[i].by = "job_timeout"

\* the sleep took three seconds and then the job timed out
C11_Witness == C11_Scenario /\ elapsed[<<1>>] = 3 /\ now = 3

(***************************************************************************)
(* C12: the scoped action timeout is released on every exit path of its    *)
(* body (normal return, raised error, cancellation): an alarm is pending   *)
(* only while the body of the run of the action that armed it is           *)
(* executing, so it cannot fire during a later step.                       *)
(***************************************************************************)
C12_AlarmReleasedOnEveryExit ==
    alarm # NoAlarm => BodyExecuting(alarm)

(***************************************************************************)
(* C13: for every action whose run completed, elapsed_time >= 0 and        *)
(* elapsed_time <= timeout.duration plus a small grace, for an action that *)
(* owns an internal pipeline as well as for a leaf.                        *)
(***************************************************************************)
C13_ElapsedWithinTimeout ==
    \A a \in Actions :
        ReturnedOf(a) # {} => elapsed[a] >= 0 /\ elapsed[a] <= duration[a] + Grace

(***************************************************************************)
(* C14: when an action's scoped timeout of d seconds fires while its run() *)
(* is executing, the action's errors gain the message "... timed out after *)
(* d seconds", the action's cleanup() is called, and the enclosing         *)
(* pipeline re-raises the error to its caller.                             *)
(***************************************************************************)
C14_TimeoutRecordedCleanedReraised ==
    \A i \in DOMAIN log :
        (log[i].op = "alarm" /\ i + 2 <= Len(log)) =>
            LET a == log[i].a
                e == HandlerEnd(i + 2)
                msg == tree[a].kind \o " timed out after " \o ToString(duration[a]) \o " seconds"
            IN /\ log[i + 2].op = "raised" /\ log[i + 2].a = a
               /\ \E x, y \in (i + 2)..e :
                     /\ x < y
                     /\ log[x].op = "errors" /\ log[x].a = a /\ log[x].by = msg
                     /\ log[y].op = "cleanup" /\ log[y].a = a /\ log[y].by = "handler"
               /\ log[e].by = "JobError" /\ log[e].a = Pop(a)

(***************************************************************************)
(* Construction of the action tree: Pipeline.__init__ and                  *)
(* Pipeline.add_action with the timeout overrides of the device and of the *)
(* job, and Action.__set_parameters__.                                     *)
(***************************************************************************)
MaxActions == 3

\* dict[key] = value
SetKey(m, k, v) == (k :> v) @@ m

\* Action.__init__ of a subclass that sets its own timeout t
NewAction(name, t) ==
    [name |-> name, timeout |-> t,
     connection_timeout |-> Timeout(name, ACTION_TIMEOUT, FALSE),
     parameters |-> <<>>, errors |-> <<>>, max_retries |-> 1]

\* Action._override_action_timeout; override is a dict that holds a timeout
\* mapping for the action's name
override_action_timeout(act, override) ==
    [act EXCEPT !.timeout = Timeout(act.name, parse(override[act.name]).value, FALSE)]

\* Action._override_connection_timeout
override_connection_timeout(act, override) ==
    [act EXCEPT !.connection_timeout =
                    Timeout(act.name, parse(override[act.name]).value, FALSE)]

\* add_action: parameters['default_connection_timeout']
DefaultConnectionTimeout(st) ==
    IF "default_connection_timeout" \in DOMAIN st.parameters
    THEN [st EXCEPT !.act.connection_timeout.duration =
                        st.parameters["default_connection_timeout"]]
    ELSE st

\* add_action: the overrides of table overrides for the action's name, the
\* part that device level and job level have in common
NamedOverrides(st, overrides) ==
    IF "actions" \in DOMAIN overrides /\ st.act.name \in DOMAIN overrides["actions"]
    THEN [st EXCEPT !.act = override_action_timeout(@, overrides["actions"])]
    ELSE IF st.act.name \in DOMAIN overrides
    THEN [act |-> override_action_timeout(st.act, overrides),
          parameters |-> SetKey(st.parameters, "timeout", overrides[st.act.name])]
    ELSE st

\* add_action: the connection override of table overrides
ConnectionOverrides(st, overrides) ==
    IF "connections" \in DOMAIN overrides /\ st.act.name \in DOMAIN overrides["connections"]
    THEN [st EXCEPT !.act = override_connection_timeout(@, overrides["connections"])]
    ELSE st

\* add_action: device level overrides; dev is job.device, NotADict for None
DeviceOverrides(st, dev) ==
    IF ~dev.isdict THEN st
    ELSE LET overrides == IF "timeouts" \in DOMAIN dev.map THEN dev.map["timeouts"] ELSE <<>>
         IN ConnectionOverrides(NamedOverrides(st, overrides), overrides)

\* add_action: job level overrides; jp is job.parameters
JobOverrides(st, jp) ==
    IF "timeouts" \notin DOMAIN jp THEN st
    ELSE LET overrides == jp["timeouts"]
             name == st.act.name
             s1 == IF \/ "actions" \in DOMAIN overrides /\ name \in DOMAIN overrides["actions"]
                      \/ name \in DOMAIN overrides
                   THEN NamedOverrides(st, overrides)
                   ELSE IF "timeout" \in DOMAIN st.parameters
                   THEN [st EXCEPT !.act.timeout.duration =
                                       parse(st.parameters["timeout"]).value]
                   ELSE st
         IN ConnectionOverrides(s1, overrides)

\* the error __set_parameters__ records
RepeatAndRetry == "Unable to use repeat and failure_retry, use a repeat block"

\* mutant: repeat is ignored when failure_retry is given
set_parameters_retry_wins(act, data) ==
    LET a1 == [act EXCEPT !.parameters = data @@ @, !.timeout.name = act.name]
        a2 == IF "timeout" \in DOMAIN a1.parameters
                 /\ a1.timeout.duration = default_duration
              THEN [a1 EXCEPT !.timeout.duration = parse(a1.parameters["timeout"]).value]
              ELSE a1
        a3 == IF "connection_timeout" \in DOMAIN a2.parameters
              THEN [a2 EXCEPT !.connection_timeout.duration =
                                  parse(a2.parameters["connection_timeout"]).value]
              ELSE a2
    IN IF "failure_retry" \in DOMAIN a3.parameters
       THEN [a3 EXCEPT !.max_retries = a3.parameters["failure_retry"]]
       ELSE IF "repeat" \in DOMAIN a3.parameters
       THEN [a3 EXCEPT !.max_retries = a3.parameters["repeat"]]
       ELSE a3

\* Action.__set_parameters__
set_parameters(act, data) ==
    LET a1 == [act EXCEPT !.parameters = data @@ @, !.timeout.name = act.name]
        a2 == IF "timeout" \in DOMAIN a1.parameters
                 /\ a1.timeout.duration = default_duration
              THEN [a1 EXCEPT !.timeout.duration = parse(a1.parameters["timeout"]).value]
              ELSE a1
        a3 == IF "connection_timeout" \in DOMAIN a2.parameters
              THEN [a2 EXCEPT !.connection_timeout.duration =
                                  parse(a2.parameters["connection_timeout"]).value]
              ELSE a2
        a4 == IF "failure_retry" \in DOMAIN a3.parameters /\ "repeat" \in DOMAIN a3.parameters
              THEN [a3 EXCEPT !.errors = Append(@, RepeatAndRetry)]
              ELSE a3
        a5 == IF "failure_retry" \in DOMAIN a4.parameters
              THEN [a4 EXCEPT !.max_retries = a4.parameters["failure_retry"]]
              ELSE a4
    IN IF "repeat" \in DOMAIN a5.parameters
       THEN [a5 EXCEPT !.max_retries = a5.parameters["repeat"]]
       ELSE a5

\* add_action after populate: the action as it is left, and the parameters
\* dict that was passed as add_action leaves it
add_action(act, parameters, dev, jp) ==
    LET s0 == [act |-> act, parameters |-> parameters]
        s3 == JobOverrides(DeviceOverrides(DefaultConnectionTimeout(s0), dev), jp)
    IN [act |-> set_parameters(s3.act, s3.parameters), parameters |-> s3.parameters]

\* mutant: the level of a root action keeps the branch level
LevelWithBranch(pl, hasParent, k) ==
    pl.branch_level \o "." \o ToString(k)

\* mutant: the level is computed before the action is appended
LevelBeforeAppend(pl, hasParent, k) ==
    IF hasParent THEN pl.branch_level \o "." \o ToString(k - 1) ELSE ToString(k - 1)

\* add_action: the level of the k-th action of pipeline pl
Level(pl, hasParent, k) ==
    LET first == pl.branch_level \o "." \o ToString(k)
    IN IF hasParent THEN first ELSE ToString(k)

\* Pipeline.__init__
Pipeline(branch_level, parameters) ==
    [branch_level |-> branch_level, count |-> 0, parameters |-> parameters]

(***************************************************************************)
(* The inputs of a construction                                            *)
(***************************************************************************)
ActionNames == {"boot", "other"}

\* what an action's constructor sets as its timeout
ConstructorTimeouts(name) ==
    {Timeout(name, ACTION_TIMEOUT, FALSE), Timeout(name, 60, FALSE),
     Timeout(name, 120, TRUE)}

\* the parameters passed to add_action
ParamChoices ==
    {<<>>,
     "timeout" :> Dict("seconds" :> 5)}

\* job.parameters: without timeouts, with only the job timeout, with an
\* override for boot of 30 seconds (the default duration), of 400 seconds, in
\* the flat form, and for the connection of boot
JobConfigs ==
    {<<>>,
     "timeouts" :> ("job" :> Dict("minutes" :> 1)),
     "timeouts" :> ("actions" :> ("boot" :> Dict("seconds" :> 30))),
     "timeouts" :> ("actions" :> ("boot" :> Dict(("minutes" :> 6) @@ ("seconds" :> 40)))),
     "timeouts" :> ("boot" :> Dict("seconds" :> 45)),
     "timeouts" :> ("connections" :> ("boot" :> Dict("minutes" :> 10)))}

\* job.device: None, without timeouts, with an override for boot of 10
\* seconds, and the same in the flat form
DeviceConfigs ==
    {NotADict,
     Dict(<<>>),
     Dict("timeouts" :> ("actions" :> ("boot" :> Dict("seconds" :> 10)))),
     Dict("timeouts" :> ("boot" :> Dict("seconds" :> 10)))}

\* the job has constructed its root pipeline
BuildInit ==
    /\ tree = (<<>> :> Root(0))
    /\ jobTimeout = 0
    /\ EngineIdle
    /\ duration = <<>>
    /\ alarmAt = NoTime
    /\ pipelines = (<<>> :> Pipeline("1", <<>>))
    /\ levels = <<>>
    /\ jobParams \in JobConfigs
    /\ device \in DeviceConfigs
    /\ addedAction = NoAction
    /\ call = NoCall
    /\ NoJob
    /\ NoTools

\* populate of the action being added creates its internal pipeline:
\* Pipeline(parent=self, job=self.job, parameters=parameters)
NewPipeline ==
    /\ call.op = "add_action"
    /\ call.path \notin DOMAIN pipelines
    /\ pipelines' = pipelines @@ (call.path :> Pipeline(levels[call.path], call.data.map))
    /\ UNCHANGED <<levels, jobParams, device, addedAction, call>>
    /\ UNCHANGED <<engineVars, timerVars, jobVars, toolVars>>

\* pipeline p adds a new action; parameters is NotADict when add_action is
\* called without parameters. Actions are added depth first: to the pipeline
\* of the action added last, or to a pipeline that holds it
AddAction(p, name, t, parameters) ==
    /\ p \in DOMAIN pipelines
    /\ IsPrefix(p, call.path)
    /\ Cardinality(DOMAIN levels) < MaxActions
    /\ LET k == pipelines[p].count + 1
           passed == IF parameters.isdict THEN parameters.map ELSE pipelines[p].parameters
           res == add_action(NewAction(name, t), passed, device, jobParams)
       IN /\ levels' = levels @@ ((p \o <<k>>) :> Level(pipelines[p], p # <<>>, k))
          /\ pipelines' = [pipelines EXCEPT
                              ![p].count = k,
                              ![p].parameters = IF parameters.isdict THEN @ ELSE res.parameters]
          /\ addedAction' = res.act
          /\ call' = [op |-> "add_action", path |-> p \o <<k>>, data |-> Dict(passed),
                      d |-> k, before |-> t, raised |-> "none",
                      value |-> res.act.timeout.duration]
    /\ UNCHANGED <<jobParams, device>>
    /\ UNCHANGED <<engineVars, timerVars, jobVars, toolVars>>

BuildNext ==
    \/ NewPipeline
    \/ \E p \in DOMAIN pipelines, name \in ActionNames :
          \E t \in ConstructorTimeouts(name),
             ps \in {NotADict} \cup {Dict(x) : x \in ParamChoices} :
                AddAction(p, name, t, ps)

BuildSpec == BuildInit /\ [][BuildNext]_vars

(***************************************************************************)
(* Calls of Timeout.parse and Timeout.modify                               *)
(***************************************************************************)
MaxUnits == 2

\* the values a timeout mapping gives to a key
ParseValues == (-1..MaxUnits) \cup {25, 90}

\* the arguments of Timeout.parse: a mapping with any of the four keys, or
\* something that is not a mapping
ParseInputs ==
    {NotADict} \cup
    {Dict(m) : m \in UNION {[K -> ParseValues] :
                               K \in SUBSET {"days", "hours", "minutes", "seconds"}}}

\* the timeouts modify is called on
ModifyTimeouts == {Timeout("boot", ACTION_TIMEOUT, FALSE), Timeout("boot", 60, TRUE)}

\* the durations the job input asks for
ModifyInputs == {-5, 0, 1, 299, 300, 301, 1000}

TimeoutInit ==
    /\ tree = (<<>> :> Root(0))
    /\ jobTimeout = 0
    /\ EngineIdle
    /\ duration = <<>>
    /\ alarmAt = NoTime
    /\ NothingBuilt
    /\ NoJob
    /\ NoTools

\* Timeout.parse(data)
ParseCall(data) ==
    /\ call' = [op |-> "parse", path |-> <<>>, data |-> data, d |-> 0,
                before |-> NoAction.timeout,
                raised |-> parse(data).raised, value |-> parse(data).value]
    /\ UNCHANGED <<pipelines, levels, jobParams, device, addedAction>>
    /\ UNCHANGED <<engineVars, timerVars, jobVars, toolVars>>

\* t.modify(d)
ModifyCall(t, d) ==
    /\ call' = [op |-> "modify", path |-> <<>>, data |-> NotADict, d |-> d,
                before |-> t,
                raised |-> modify(t, d).raised, value |-> modify(t, d).timeout.duration]
    /\ UNCHANGED <<pipelines, levels, jobParams, device, addedAction>>
    /\ UNCHANGED <<engineVars, timerVars, jobVars, toolVars>>

TimeoutNext ==
    \/ \E data \in ParseInputs : ParseCall(data)
    \/ \E t \in ModifyTimeouts, d \in ModifyInputs : ModifyCall(t, d)

TimeoutSpec == TimeoutInit /\ [][TimeoutNext]_vars

(***************************************************************************)
(* Reading a construction                                                  *)
(***************************************************************************)
\* the seconds a timeout mapping stands for
Seconds(spec) ==
    LET at(k) == IF k \in DOMAIN spec.map THEN spec.map[k] ELSE 0
    IN 86400 * at("days") + 3600 * at("hours") + 60 * at("minutes") + at("seconds")

\* table overrides holds an action override for name
HasOverride(overrides, name) ==
    \/ "actions" \in DOMAIN overrides /\ name \in DOMAIN overrides["actions"]
    \/ name \in DOMAIN overrides

\* the timeout mapping table overrides holds for name
OverrideOf(overrides, name) ==
    IF "actions" \in DOMAIN overrides /\ name \in DOMAIN overrides["actions"]
    THEN overrides["actions"][name] ELSE overrides[name]

JobTable == IF "timeouts" \in DOMAIN jobParams THEN jobParams["timeouts"] ELSE <<>>
DeviceTable ==
    IF device.isdict /\ "timeouts" \in DOMAIN device.map THEN device.map["timeouts"] ELSE <<>>

\* the sequence of indices p as a dotted string
RECURSIVE DotJoin(_)
DotJoin(p) ==
    IF Len(p) = 1 THEN ToString(p[1])
    ELSE DotJoin(SubSeq(p, 1, Len(p) - 1)) \o "." \o ToString(p[Len(p)])

(***************************************************************************)
(* C15: after add_action the action's timeout.duration is the job-level    *)
(* override J for its name if there is one, else the device-level override *)
(* D if there is one, else the action's own default (what its constructor  *)
(* set, or the 'timeout' of its parameters); for every value of J, also    *)
(* the default duration, and whether or not the parameters carry a         *)
(* 'timeout' entry.                                                        *)
(***************************************************************************)
C15_JobThenDeviceThenDefault ==
    call.op = "add_action" =>
        LET name == addedAction.name
            d == addedAction.timeout.duration
        IN IF HasOverride(JobTable, name) THEN d = Seconds(OverrideOf(JobTable, name))
           ELSE IF HasOverride(DeviceTable, name) THEN d = Seconds(OverrideOf(DeviceTable, name))
           ELSE \/ d = call.before.duration
                \/ "timeout" \in DOMAIN call.data.map /\ d = Seconds(call.data.map["timeout"])

(***************************************************************************)
(* C16: every timeout duration set from job input is within [1, CLAMP]:    *)
(* modify(d) leaves max(min(CLAMP, d), 1), and a job-level                 *)
(* timeouts.actions or timeouts.connections override applied by add_action *)
(* also yields a duration within [1, CLAMP].                               *)
(***************************************************************************)
C16_JobInputWithinClamp ==
    /\ (call.op = "modify" /\ call.raised = "none") =>
          /\ call.value >= 1 /\ call.value <= OVERRIDE_CLAMP_DURATION
          /\ (call.d >= 1 /\ call.d <= OVERRIDE_CLAMP_DURATION) => call.value = call.d
    /\ (call.op = "add_action" /\ HasOverride(JobTable, addedAction.name)) =>
          /\ addedAction.timeout.duration >= 1
          /\ addedAction.timeout.duration <= OVERRIDE_CLAMP_DURATION
    /\ (call.op = "add_action" /\ "connections" \in DOMAIN JobTable
        /\ addedAction.name \in DOMAIN JobTable["connections"]) =>
          /\ addedAction.connection_timeout.duration >= 1
          /\ addedAction.connection_timeout.duration <= OVERRIDE_CLAMP_DURATION

(***************************************************************************)
(* C17: a timeout marked protected is never changed by job input: modify() *)
(* on it fails and leaves the duration unchanged, and add_action of a job  *)
(* whose device sets no override for the action leaves the protected       *)
(* timeout in place, unaltered, whatever the job-level overrides for the   *)
(* action's name and the 'timeout' of its parameters.                      *)
(***************************************************************************)
C17_ProtectedNeverChanged ==
    /\ (call.op = "modify" /\ call.before.protected) =>
          call.raised # "none" /\ call.value = call.before.duration
    /\ (call.op = "add_action" /\ call.before.protected
        /\ ~HasOverride(DeviceTable, addedAction.name)) =>
          addedAction.timeout = call.before

(***************************************************************************)
(* C18: Timeout.parse of a mapping with any subset of the keys days,       *)
(* hours, minutes, seconds returns 86400*days + 3600*hours + 60*minutes +  *)
(* seconds, absent keys counting as 0; a mapping whose total is zero       *)
(* returns the default duration; a non-mapping raises RuntimeError.        *)
(***************************************************************************)
C18_ParseSumsToSeconds ==
    call.op = "parse" =>
        IF call.data.isdict
        THEN /\ call.raised = "none"
             /\ call.value = IF Seconds(call.data) = 0 THEN ACTION_TIMEOUT
                             ELSE Seconds(call.data)
        ELSE call.raised = "RuntimeError"

\* 25 hours and -1 seconds were parsed to 89999 seconds
C18_Witness ==
    /\ call.op = "parse"
    /\ call.data = Dict(("hours" :> 25) @@ ("seconds" :> -1))
    /\ call.value = 89999

(***************************************************************************)
(* C19: for every action of a built tree, level is the dot-joined 1-based  *)
(* insertion indices of its ancestors and itself, counted from the root    *)
(* pipeline; levels are unique across the tree; and no later step of the   *)
(* construction changes a level once assigned.                             *)
(***************************************************************************)
C19_LevelsAreDottedPaths ==
    /\ [](/\ \A a \in DOMAIN levels : levels[a] = DotJoin(a)
          /\ \A a, b \in DOMAIN levels : a # b => levels[a] # levels[b])
    /\ [][\A a \in DOMAIN levels : a \in DOMAIN levels' /\ levels'[a] = levels[a]]_vars

\* three levels of nesting and a second root action have been built
C19_Witness ==
    /\ <<1, 1>> \in DOMAIN levels /\ levels[<<1, 1>>] = "1.1"
    /\ <<2>> \in DOMAIN levels /\ levels[<<2>>] = "2"

(***************************************************************************)
(* C20 as claimed: the k-th action appended to the root pipeline is        *)
(* assigned level "{branch_level}.{k}" with branch_level = 1, and the k-th *)
(* action appended to a child pipeline is assigned "{parent.level}.{k}".   *)
(***************************************************************************)
C20_RootLevelHasBranchPrefix ==
    [][\A a \in DOMAIN levels' \ DOMAIN levels :
          LET p == Pop(a)
              k == pipelines[p].count + 1
          IN /\ a = p \o <<k>>
             /\ levels'[a] = IF p = <<>> THEN "1." \o ToString(k)
                             ELSE levels[p] \o "." \o ToString(k)]_vars

(***************************************************************************)
(* C20 amended: the k-th action appended to the root pipeline is assigned  *)
(* level "{k}" (the value "{branch_level}.{k}" is overwritten for a        *)
(* pipeline without parent), and the k-th action appended to a child       *)
(* pipeline is assigned "{parent.level}.{k}".                              *)
(***************************************************************************)
C20_RootLevelIsIndex ==
    [][\A a \in DOMAIN levels' \ DOMAIN levels :
          LET p == Pop(a)
              k == pipelines[p].count + 1
          IN /\ a = p \o <<k>>
             /\ levels'[a] = IF p = <<>> THEN ToString(k)
                             ELSE levels[p] \o "." \o ToString(k)]_vars

\* the second root action and the first action of a child pipeline exist
C20_Witness ==
    /\ <<2>> \in DOMAIN levels
    /\ <<2, 1>> \in DOMAIN levels /\ levels[<<2, 1>>] = "2.1"

(***************************************************************************)
(* The job's tree of action objects: Action.__init__, Pipeline.add_action  *)
(* with populate and the parameters setter, Action.errors, Action.valid,   *)
(* Action.validate and Pipeline.validate_actions.                          *)
(*                                                                         *)
(* A str is the sequence of its pieces: words without whitespace and       *)
(* single whitespace characters; None is a value of its own.               *)
(***************************************************************************)
MaxJobActions == 2

None == [set |-> FALSE, chars |-> <<>>]
Str(chars) == [set |-> TRUE, chars |-> chars]

\* bool(x) of None or a str
Truthy(x) == x.set /\ x.chars # <<>>

\* ch in x, for a str x
Contains(x, ch) == \E i \in 1..Len(x.chars) : x.chars[i] = ch

\* a subclass of Action: what its constructor sets and what its populate
\* does: whether it creates self.internal_pipeline, the classes of the
\* actions it adds to it, and the common data it stores
ActionClass(name, summary, description, section, pipeline, children, stores) ==
    [name |-> name, summary |-> summary, description |-> description,
     section |-> section, pipeline |-> pipeline, children |-> children,
     stores |-> stores]

Boot == Str(<<"boot">>)
Text == Str(<<"text">>)

ClassTable ==
    ("leaf" :> ActionClass(Boot, Text, Text, Text, FALSE, <<>>, FALSE)) @@
    ("unnamed" :> ActionClass(None, Text, Text, Text, FALSE, <<>>, FALSE)) @@
    ("empty_name" :> ActionClass(Str(<<>>), Text, Text, Text, FALSE, <<>>, FALSE)) @@
    ("spaced" :> ActionClass(Str(<<"a", " ", "b">>), Text, Text, Text, FALSE, <<>>, FALSE)) @@
    ("tabbed" :> ActionClass(Str(<<"a", "\t", "b">>), Text, Text, Text, FALSE, <<>>, FALSE)) @@
    ("no_summary" :> ActionClass(Str(<<"deploy">>), None, Text, Text, FALSE, <<>>, FALSE)) @@
    ("no_description" :> ActionClass(Str(<<"deploy">>), Text, Str(<<>>), Text, FALSE, <<>>, FALSE)) @@
    ("no_section" :> ActionClass(Str(<<"test">>), Text, Text, None, FALSE, <<>>, FALSE)) @@
    ("empty_container" :> ActionClass(Str(<<"retry">>), Text, Text, Text, TRUE, <<>>, FALSE)) @@
    ("container" :> ActionClass(Str(<<"outer">>), Text, Text, Text, TRUE, <<"leaf", "no_section">>, FALSE)) @@
    ("bad_container" :> ActionClass(Str(<<"outer">>), Text, Text, Text, TRUE, <<"no_summary">>, FALSE)) @@
    ("nested" :> ActionClass(Str(<<"top">>), Text, Text, Text, TRUE, <<"container">>, FALSE)) @@
    ("nested_bad" :> ActionClass(Str(<<"top">>), Text, Text, Text, TRUE, <<"bad_container">>, FALSE)) @@
    ("scp_overlay" :> ActionClass(Str(<<"scp-overlay">>), Text, Text, Text, TRUE, <<"leaf">>, TRUE))

\* the classes of the actions a job adds to its root pipeline
JobClasses == DOMAIN ClassTable

\* the parameter blocks of the job's actions
RetryParams ==
    {<<>>,
     "failure_retry" :> 2,
     "repeat" :> 3,
     ("failure_retry" :> 2) @@ ("repeat" :> 3)}

\* Action.__init__ followed by the constructor of class c
Construct(c) ==
    [name |-> ClassTable[c].name, summary |-> ClassTable[c].summary,
     description |-> ClassTable[c].description, section |-> ClassTable[c].section,
     internal_pipeline |-> FALSE, pipeline |-> FALSE, class |-> c,
     timeout |-> Timeout(ClassTable[c].name, ACTION_TIMEOUT, FALSE),
     connection_timeout |-> Timeout(ClassTable[c].name, ACTION_TIMEOUT, FALSE),
     parameters |-> <<>>, errors |-> <<>>, max_retries |-> 1]

\* len(pipeline.actions) of the pipeline of action p, or of the root
\* pipeline for the empty path
NumActions(as, p) ==
    Cardinality({a \in DOMAIN as : Len(a) = Len(p) + 1 /\ IsPrefix(p, a)})

\* dict.setdefault(k, v)
SetDefault(m, k, v) == IF k \in DOMAIN m THEN m ELSE (k :> v) @@ m

\* mutant: a key that holds a value keeps it
set_common_data_keeps_first(ctx, ns, key, value) ==
    LET c1 == SetDefault(ctx.common, ns, <<>>)
    IN [ctx EXCEPT !.common = [c1 EXCEPT ![ns] = SetDefault(@, key, value)]]

\* Action.set_common_data
set_common_data(ctx, ns, key, value) ==
    LET c1 == SetDefault(ctx.common, ns, <<>>)
    IN [ctx EXCEPT !.common = [c1 EXCEPT ![ns] = SetKey(@, key, value)]]

RECURSIVE AssignParameters(_, _, _)
RECURSIVE PropagateFrom(_, _, _)
RECURSIVE AddTree(_, _, _, _)
RECURSIVE PopulateFrom(_, _, _, _)

\* the parameters setter: __set_parameters__, then the same assignment on
\* every action of self.pipeline with the parameters of this action
AssignParameters(as, a, data) ==
    LET s1 == [as EXCEPT ![a] = set_parameters(@, data)]
    IN IF s1[a].pipeline THEN PropagateFrom(s1, a, 1) ELSE s1

\* the loop of the parameters setter over self.pipeline.actions, from the
\* i-th action on
PropagateFrom(as, a, i) ==
    IF a \o <<i>> \notin DOMAIN as THEN as
    ELSE PropagateFrom(AssignParameters(as, a \o <<i>>, as[a].parameters), a, i + 1)

\* Pipeline.add_action(c(), parameters) on the pipeline of action p (the
\* root pipeline for the empty path) of a job without device and without
\* timeouts; st holds the actions and the context
AddTree(st, p, c, parameters) ==
    LET k == NumActions(st.acts, p) + 1
        a == p \o <<k>>
        new == IF p # <<>>
               THEN [Construct(c) EXCEPT !.section = st.acts[p].section]
               ELSE Construct(c)
        s0 == [st EXCEPT !.acts = IF p # <<>>
                                  THEN [@ EXCEPT ![p].pipeline = TRUE] @@ (a :> new)
                                  ELSE @ @@ (a :> new)]
        s1 == IF ClassTable[c].pipeline
              THEN PopulateFrom([s0 EXCEPT !.acts[a].internal_pipeline = TRUE],
                                a, 1, parameters)
              ELSE s0
        s2 == JobOverrides(
                  DeviceOverrides(
                      DefaultConnectionTimeout([act |-> s1.acts[a],
                                                parameters |-> parameters]),
                      NotADict),
                  <<>>)
    IN [s1 EXCEPT !.acts = AssignParameters([@ EXCEPT ![a] = s2.act], a, s2.parameters)]

\* populate of action a: the common data it stores and the actions it adds
\* to its internal pipeline, from the i-th on
PopulateFrom(st, a, i, parameters) ==
    LET cls == ClassTable[st.acts[a].class]
        s0 == IF i = 1 /\ cls.stores
              THEN [st EXCEPT !.context =
                        set_common_data(@, st.acts[a].name.chars, "tar_flags", Atom(""))]
              ELSE st
    IN IF i > Len(cls.children) THEN s0
       ELSE PopulateFrom(AddTree(s0, a, cls.children[i], parameters), a, i + 1, parameters)

\* an entry of the errors property: the action that recorded it and the text
Err(a, text) == [of |-> a, text |-> text]

RECURSIVE ActionErrors(_, _)
RECURSIVE PipelineErrorsFrom(_, _, _)

\* mutant: the errors of the internal pipeline are left out
ActionErrorsOwnOnly(as, a) ==
    [i \in 1..Len(as[a].errors) |-> Err(a, as[a].errors[i])]

\* Action.errors
ActionErrors(as, a) ==
    [i \in 1..Len(as[a].errors) |-> Err(a, as[a].errors[i])]
    \o (IF as[a].internal_pipeline THEN PipelineErrorsFrom(as, a, 1) ELSE <<>>)

\* Pipeline.errors: the errors of the actions from the i-th on, concatenated
PipelineErrorsFrom(as, p, i) ==
    IF p \o <<i>> \notin DOMAIN as THEN <<>>
    ELSE ActionErrors(as, p \o <<i>>) \o PipelineErrorsFrom(as, p, i + 1)

\* Action.valid
valid(as, a) == Len(ActionErrors(as, a)) = 0

\* mutant: the setter assigns, a falsy value clears the list
SetErrorsAssigns(act, error) ==
    [act EXCEPT !.errors = IF error # "" THEN <<error>> ELSE <<>>]

\* the errors setter
SetErrors(act, error) ==
    IF error # "" THEN [act EXCEPT !.errors = Append(@, error)] ELSE act

NoName == "action has no name set"
Whitespace == "Whitespace must not be used in action names"
NoSummary == "action lacks a summary"
NoDescription == "action lacks a description"
NoSection == "action has no section set"

RECURSIVE validate(_, _)
RECURSIVE ValidateFrom(_, _, _)

\* mutant: the root pipeline raises whether or not there are errors
validate_actionsAlwaysRaises(st, p) ==
    LET s1 == ValidateFrom(st, p, 1)
    IN IF s1.raised # "none" THEN s1
       ELSE IF p = <<>>
       THEN [s1 EXCEPT !.raised = "JobError",
                       !.message = PipelineErrorsFrom(s1.acts, <<>>, 1)]
       ELSE s1

\* Pipeline.validate_actions of the pipeline of action p (the root pipeline
\* for the empty path)
validate_actions(st, p) ==
    LET s1 == ValidateFrom(st, p, 1)
    IN IF s1.raised # "none" THEN s1
       ELSE IF p = <<>> /\ PipelineErrorsFrom(s1.acts, <<>>, 1) # <<>>
       THEN [s1 EXCEPT !.raised = "JobError",
                       !.message = PipelineErrorsFrom(s1.acts, <<>>, 1)]
       ELSE s1

\* Action.validate, the basic checks of an action whose name is not None
BasicChecks(act) ==
    LET a1 == SetErrors(act, IF ~Truthy(act.name) THEN NoName ELSE "")
        a2 == SetErrors(a1, IF Contains(act.name, " ") THEN Whitespace ELSE "")
        a3 == SetErrors(a2, IF ~Truthy(act.summary) THEN NoSummary ELSE "")
        a4 == SetErrors(a3, IF ~Truthy(act.description) THEN NoDescription ELSE "")
    IN SetErrors(a4, IF ~Truthy(act.section) THEN NoSection ELSE "")

\* mutant: validate leaves job.context alone
validateWithoutContext(st, a) ==
    LET act == st.acts[a]
    IN IF ~act.name.set
       THEN [st EXCEPT !.acts[a] = SetErrors(act, NoName), !.raised = "TypeError"]
       ELSE LET s1 == [st EXCEPT !.acts[a] = BasicChecks(act)]
            IN IF act.internal_pipeline THEN validate_actions(s1, a) ELSE s1

\* Action.validate; st holds the actions, the context, and the exception
\* raised so far. The test for a blank in a name that is None raises
\* TypeError
validate(st, a) ==
    LET act == st.acts[a]
    IN IF ~act.name.set
       THEN [st EXCEPT !.acts[a] = SetErrors(act, NoName), !.raised = "TypeError"]
       ELSE LET s1 == [st EXCEPT !.acts[a] = BasicChecks(act),
                                 !.context.named = SetDefault(@, act.name.chars, <<>>)]
            IN IF act.internal_pipeline THEN validate_actions(s1, a) ELSE s1

\* the loop of validate_actions, from the i-th action on
ValidateFrom(st, p, i) ==
    IF st.raised # "none" \/ p \o <<i>> \notin DOMAIN st.acts THEN st
    ELSE ValidateFrom(validate(st, p \o <<i>>), p, i + 1)

\* the job has constructed its root pipeline and its context
ValidateInit ==
    /\ tree = (<<>> :> Root(0))
    /\ jobTimeout = 0
    /\ EngineIdle
    /\ duration = <<>>
    /\ alarmAt = NoTime
    /\ NothingBuilt
    /\ NoJob
    /\ NoTools

\* job.pipeline.add_action(c(), parameters)
AddJobAction(c, parameters) ==
    /\ vres.op = "none"
    /\ running = 0
    /\ NumActions(acts, <<>>) < MaxJobActions
    /\ LET res == AddTree([acts |-> acts, context |-> context], <<>>, c, parameters)
       IN /\ acts' = res.acts
          /\ context' = res.context
    /\ UNCHANGED <<vres, heap, got, running>>
    /\ UNCHANGED <<engineVars, timerVars, buildVars, toolVars>>

\* job.validate(): job.pipeline.validate_actions()
ValidateJob ==
    /\ vres.op = "none"
    /\ running = 0
    /\ LET res == validate_actions([acts |-> acts, context |-> context,
                                    raised |-> "none", message |-> <<>>], <<>>)
       IN /\ acts' = res.acts
          /\ context' = res.context
          /\ vres' = [op |-> "validate_actions", raised |-> res.raised,
                      message |-> res.message]
    /\ UNCHANGED <<heap, got, running>>
    /\ UNCHANGED <<engineVars, timerVars, buildVars, toolVars>>

\* an action records an error while it runs (run_command: self.errors = ...)
CommandFailed == "command failed"
RecordError(a) ==
    /\ vres.op = "validate_actions"
    /\ vres.raised = "none"
    /\ \A b \in DOMAIN acts : CommandFailed \notin {acts[b].errors[i] : i \in DOMAIN acts[b].errors}
    /\ acts' = [acts EXCEPT ![a] = SetErrors(@, CommandFailed)]
    /\ UNCHANGED <<context, vres, heap, got, running>>
    /\ UNCHANGED <<engineVars, timerVars, buildVars, toolVars>>

ValidateNext ==
    \/ \E c \in JobClasses, parameters \in RetryParams : AddJobAction(c, parameters)
    \/ ValidateJob
    \/ \E a \in DOMAIN acts : RecordError(a)

ValidateSpec == ValidateInit /\ [][ValidateNext]_vars


(***************************************************************************)
(* The job's context while its actions run: Action.data,                   *)
(* Action.set_common_data and Action.get_common_data. Lists are objects    *)
(* of a heap, held by reference; a str is held by value.                   *)
(***************************************************************************)
MaxHeap == 4
MaxWrites == 2
MaxStores == 2

\* the namespaces and keys of the common data the actions use
Namespaces == {<<"x">>, <<"q">>}
Keys == {"y", "z"}

\* the values an action stores: 'abc', 'xyz', [1, 2] and [[1], 2]
StrLiterals == {"abc", "xyz"}
ListLiterals == {"flat", "nested"}

\* evaluating a literal: the heap with the new list objects, and the value
NewValue(h, lit) ==
    IF lit \in StrLiterals THEN [heap |-> h, value |-> Atom(lit)]
    ELSE IF lit = "flat"
    THEN [heap |-> Append(h, <<Atom("1"), Atom("2")>>), value |-> Ref(Len(h) + 1)]
    ELSE [heap |-> h \o <<<<Atom("1")>>, <<Ref(Len(h) + 1), Atom("2")>>>>,
          value |-> Ref(Len(h) + 2)]

RECURSIVE deepcopy(_, _)
RECURSIVE CopyItemsFrom(_, _, _, _)

\* mutant: copy.copy, the items of the new list are those of the old one
shallowcopy(h, v) ==
    IF ~v.isref THEN [heap |-> h, value |-> v]
    ELSE [heap |-> Append(h, h[v.ref]), value |-> Ref(Len(h) + 1)]

\* copy.deepcopy(v): a str is returned as it is, a list is copied into a
\* new list that holds the deep copies of its items
deepcopy(h, v) ==
    IF ~v.isref THEN [heap |-> h, value |-> v]
    ELSE LET r == Len(h) + 1
         IN [heap |-> CopyItemsFrom(Append(h, <<>>), v.ref, r, 1), value |-> Ref(r)]

\* the items of list src from the i-th on, deep copied onto list dst
CopyItemsFrom(h, src, dst, i) ==
    IF i > Len(h[src]) THEN h
    ELSE LET c == deepcopy(h, h[src][i])
         IN CopyItemsFrom([c.heap EXCEPT ![dst] = Append(@, c.value)], src, dst, i + 1)

\* the value as == compares it: the str, or the list of the items' values
RECURSIVE Contents(_, _)
Contents(h, v) ==
    IF ~v.isref THEN [atom |-> v.atom, items |-> <<>>]
    ELSE [atom |-> "list", items |-> [i \in 1..Len(h[v.ref]) |-> Contents(h, h[v.ref][i])]]

\* Action.get_common_data without the copy: the value found, if any
Lookup(ctx, ns, key) ==
    IF ns \in DOMAIN ctx.common /\ key \in DOMAIN ctx.common[ns]
    THEN [found |-> TRUE, value |-> ctx.common[ns][key]]
    ELSE [found |-> FALSE, value |-> Atom("")]

\* Action.get_common_data: what it returns (found is FALSE for None) and
\* the heap it leaves
get_common_data(h, ctx, ns, key, deep) ==
    LET l == Lookup(ctx, ns, key)
        c == IF deep THEN deepcopy(h, l.value) ELSE [heap |-> h, value |-> l.value]
    IN [heap |-> c.heap, found |-> l.found, value |-> c.value]

\* the actions of the job in the order their run() starts
RECURSIVE RunOrderFrom(_, _, _)
RunOrderFrom(as, p, i) ==
    IF p \o <<i>> \notin DOMAIN as THEN <<>>
    ELSE <<p \o <<i>>>> \o RunOrderFrom(as, p \o <<i>>, 1) \o RunOrderFrom(as, p, i + 1)

RunOrder == RunOrderFrom(acts, <<>>, 1)

\* the action whose run() is executing
IsRunning == running \in 1..Len(RunOrder)

\* the set_common_data calls made so far
Writes == {i \in DOMAIN log : log[i].op = "set_common_data"}

\* the actions the job adds to its root pipeline, class and parameters: a
\* plain action and an action whose populate stores common data
ContextJobActions ==
    {<<"leaf", <<>>>>, <<"leaf", "repeat" :> 3>>, <<"scp_overlay", <<>>>>}

ContextInit == ValidateInit

\* run() of the next action of the job starts, once the job is valid; what
\* the previous action read was local to its run()
StartAction ==
    /\ vres.op = "validate_actions"
    /\ vres.raised = "none"
    /\ running <= Len(RunOrder)
    /\ running' = running + 1
    /\ got' = NoRead
    /\ UNCHANGED <<acts, context, vres, heap>>
    /\ UNCHANGED <<engineVars, timerVars, buildVars, toolVars>>

\* the running action stores a new value: self.set_common_data(ns, key, value)
SetCommonData(ns, key, lit) ==
    /\ IsRunning
    /\ Cardinality(Writes) < MaxWrites
    /\ LET new == NewValue(heap, lit)
       IN /\ Len(new.heap) <= MaxHeap
          /\ heap' = new.heap
          /\ context' = set_common_data(context, ns, key, new.value)
          /\ log' = Append(log, [op |-> "set_common_data", a |-> RunOrder[running],
                                 by |-> <<ns, <<key>>>>, c |-> new.value])
    /\ UNCHANGED <<acts, vres, got, running>>
    /\ UNCHANGED <<tree, jobTimeout, stack, pc, exc, retval, now, alarm, handler,
                   errors, elapsed, triggers, bootResult, outcome>>
    /\ UNCHANGED <<timerVars, buildVars, toolVars>>

\* the running action reads: self.get_common_data(ns, key, deepcopy=deep)
GetCommonData(ns, key, deep) ==
    /\ IsRunning
    /\ LET res == get_common_data(heap, context, ns, key, deep)
       IN /\ Len(res.heap) <= MaxHeap
          /\ heap' = res.heap
          /\ got' = [op |-> "get_common_data", ns |-> ns, key |-> key,
                     deepcopy |-> deep, found |-> res.found, value |-> res.value]
    /\ UNCHANGED <<acts, context, vres, running>>
    /\ UNCHANGED <<engineVars, timerVars, buildVars, toolVars>>

\* the running action changes the list it was given: value.append('new'),
\* or value[0].append('new') for a list whose first item is a list
MutateReturned(inner) ==
    /\ IsRunning
    /\ got.found
    /\ got.value.isref
    /\ LET r == IF inner THEN heap[got.value.ref][1] ELSE got.value
       IN /\ r.isref
          /\ \A i \in DOMAIN heap[r.ref] : heap[r.ref][i] # Atom("new")
          /\ heap' = [heap EXCEPT ![r.ref] = Append(@, Atom("new"))]
    /\ UNCHANGED <<acts, context, vres, got, running>>
    /\ UNCHANGED <<engineVars, timerVars, buildVars, toolVars>>

\* the self.data[self.name] = ... assignments made so far
Stores == {i \in DOMAIN log : log[i].op = "store"}

\* the running action stores its parameters, once:
\* self.data[self.name] = self.parameters
StoreParameters ==
    /\ IsRunning
    /\ \A i \in Stores : log[i].a # RunOrder[running]
    /\ Cardinality(Stores) < MaxStores
    /\ LET act == acts[RunOrder[running]]
       IN /\ context' = [context EXCEPT !.named = SetKey(@, act.name.chars, act.parameters)]
          /\ log' = Append(log, [op |-> "store", a |-> RunOrder[running],
                                 by |-> <<act.name.chars>>, c |-> Atom("")])
    /\ UNCHANGED <<acts, vres, heap, got, running>>
    /\ UNCHANGED <<tree, jobTimeout, stack, pc, exc, retval, now, alarm, handler,
                   errors, elapsed, triggers, bootResult, outcome>>
    /\ UNCHANGED <<timerVars, buildVars, toolVars>>

ContextNext ==
    \/ \E ja \in ContextJobActions : AddJobAction(ja[1], ja[2])
    \/ ValidateJob
    \/ StartAction
    \/ \E ns \in {<<"x">>}, key \in {"y"}, lit \in StrLiterals : SetCommonData(ns, key, lit)
    \/ \E ns \in Namespaces, key \in Keys, deep \in BOOLEAN : GetCommonData(ns, key, deep)
    \/ StoreParameters

ContextSpec == ContextInit /\ [][ContextNext]_vars

\* the job is built of plain actions and validated, then its actions run
\* and exchange lists through the common data
CommonDataInit == ValidateInit

CommonDataNext ==
    \/ AddJobAction("leaf", <<>>)
    \/ ValidateJob
    \/ StartAction
    \/ \E ns \in {<<"x">>}, key \in {"y"}, lit \in ListLiterals \cup {"abc"} :
          SetCommonData(ns, key, lit)
    \/ \E ns \in Namespaces, key \in Keys, deep \in BOOLEAN : GetCommonData(ns, key, deep)
    \/ \E inner \in BOOLEAN : MutateReturned(inner)

CommonDataSpec == CommonDataInit /\ [][CommonDataNext]_vars

(***************************************************************************)
(* Reading a validation                                                    *)
(***************************************************************************)
\* a job whose actions all have a name without whitespace, a summary, a
\* description and a section, and parameters without both failure_retry
\* and repeat
WellFormed(as) ==
    \A a \in DOMAIN as :
        /\ Truthy(as[a].name)
        /\ ~Contains(as[a].name, " ")
        /\ ~Contains(as[a].name, "\t")
        /\ Truthy(as[a].summary)
        /\ Truthy(as[a].description)
        /\ Truthy(as[a].section)
        /\ ~({"failure_retry", "repeat"} \subseteq DOMAIN as[a].parameters)

\* the actions below action a, at any depth
Descendants(as, a) == {d \in DOMAIN as : d # a /\ IsPrefix(a, d)}

\* how many entries of a list equal e
Count(seq, e) == Cardinality({i \in DOMAIN seq : seq[i] = e})

\* the texts of an action's own errors
OwnErrors(as, a) == {as[a].errors[i] : i \in DOMAIN as[a].errors}

(***************************************************************************)
(* C21: after validate_actions() on a well-formed job tree,                *)
(* validate_actions has not raised, every action's errors list is empty    *)
(* and every action's valid is true.                                       *)
(***************************************************************************)
C21_WellFormedJobValidates ==
    [][ValidateJob /\ WellFormed(acts) =>
          /\ vres'.raised = "none"
          /\ \A a \in DOMAIN acts' :
                /\ acts'[a].errors = <<>>
                /\ ActionErrors(acts', a) = <<>>
                /\ valid(acts', a)]_vars

C21_Witness ==
    /\ vres.op = "validate_actions"
    /\ vres.raised = "none"
    /\ WellFormed(acts)
    /\ <<1, 1, 1>> \in DOMAIN acts
    /\ <<2>> \in DOMAIN acts
    /\ \A a \in DOMAIN acts : valid(acts, a)

(***************************************************************************)
(* C22: for any malformed job tree, validate_actions() on the root         *)
(* pipeline raises JobError whose message contains each error recorded by  *)
(* any descendant exactly once, at every depth of the erring action and    *)
(* including the errors recorded while parameters were assigned.           *)
(***************************************************************************)
C22_MalformedJobRaisesEachErrorOnce ==
    [][ValidateJob /\ acts # <<>> /\ ~WellFormed(acts) =>
          /\ vres'.raised = "JobError"
          /\ \A a \in DOMAIN acts' : \A e \in OwnErrors(acts', a) :
                Count(vres'.message, Err(a, e)) = 1]_vars

(***************************************************************************)
(* C23: at every moment, an action with an internal pipeline is valid if   *)
(* and only if it has no error of its own and every action below it, at    *)
(* any depth, has none.                                                    *)
(***************************************************************************)
C23_ValidIffSelfAndDescendantsValid ==
    \A a \in DOMAIN acts :
        acts[a].internal_pipeline =>
            (valid(acts, a) <=>
                /\ acts[a].errors = <<>>
                /\ \A d \in Descendants(acts, a) :
                      acts[d].errors = <<>> /\ valid(acts, d))

C23_Witness ==
    /\ vres.op = "validate_actions"
    /\ \E a \in DOMAIN acts :
          /\ acts[a].internal_pipeline
          /\ acts[a].errors = <<>>
          /\ ~valid(acts, a)
          /\ \E d \in Descendants(acts, a) : Len(d) = Len(a) + 2 /\ acts[d].errors # <<>>
    /\ \E a \in DOMAIN acts :
          acts[a].internal_pipeline /\ Descendants(acts, a) # {} /\ valid(acts, a)

LocallyWrong(act) ==
    \/ ~Truthy(act.name)
    \/ Contains(act.name, " ")
    \/ Contains(act.name, "\t")
    \/ ~Truthy(act.summary)
    \/ ~Truthy(act.description)
    \/ ~Truthy(act.section)

C25_ValidateRecordsEveryDefect ==
    [][ValidateJob =>
          /\ vres'.raised \in {"none", "JobError"}
          /\ \A a \in DOMAIN acts :
                /\ LocallyWrong(acts[a]) => Len(acts'[a].errors) > Len(acts[a].errors)
                /\ (\E d \in Descendants(acts, a) : ~valid(acts', d)) => ~valid(acts', a)
                /\ ~LocallyWrong(acts[a]) => acts'[a].errors = acts[a].errors]_vars

(***************************************************************************)
(* C29: an action whose parameters hold both failure_retry and repeat has  *)
(* recorded a validation error and is invalid; with only one of them       *)
(* max_retries equals that value; with neither max_retries is 1.           *)
(***************************************************************************)
C29_RetryOrRepeatNotBoth ==
    \A a \in DOMAIN acts :
        LET ps == acts[a].parameters
            retry == "failure_retry" \in DOMAIN ps
            repeat == "repeat" \in DOMAIN ps
        IN /\ retry /\ repeat => RepeatAndRetry \in OwnErrors(acts, a) /\ ~valid(acts, a)
           /\ retry /\ ~repeat => acts[a].max_retries = ps["failure_retry"]
           /\ repeat /\ ~retry => acts[a].max_retries = ps["repeat"]
           /\ ~retry /\ ~repeat => acts[a].max_retries = 1

C29_Witness ==
    /\ \E a \in DOMAIN acts :
          /\ DOMAIN acts[a].parameters = {"failure_retry", "repeat"}
          /\ RepeatAndRetry \in OwnErrors(acts, a)
    /\ \E a \in DOMAIN acts :
          DOMAIN acts[a].parameters = {"repeat"} /\ acts[a].max_retries = 3


(***************************************************************************)
(* Reading the context                                                     *)
(***************************************************************************)
\* the last set_common_data(ns, key, ...) call made so far, 0 when none
LastWrite(ns, key) ==
    LET W == {i \in Writes : log[i].by = <<ns, <<key>>>>}
    IN IF W = {} THEN 0 ELSE CHOOSE i \in W : \A j \in W : j <= i

\* the last self.data[name] = ... assignment made so far, 0 when none
LastStore(name) ==
    LET S == {i \in Stores : log[i].by = <<name>>}
    IN IF S = {} THEN 0 ELSE CHOOSE i \in S : \A j \in S : j <= i

\* the context as Job.__init__ leaves it
EmptyContext == [common |-> <<>>, named |-> <<>>]

ReadsSeeLastWrite ==
    /\ \A ns \in Namespaces, key \in Keys :
          LET w == LastWrite(ns, key)
              stored == Lookup(context, ns, key)
          IN /\ stored.found <=> w # 0
             /\ w # 0 => stored.value = log[w].c
    /\ \A name \in DOMAIN context.named :
          LET w == LastStore(name)
          IN w # 0 => context.named[name] = acts[log[w].a].parameters

C27_SharedContextEmptyAfterBuild ==
    /\ []ReadsSeeLastWrite
    /\ [][\A ns \in Namespaces, key \in Keys, deep \in BOOLEAN :
             GetCommonData(ns, key, deep) /\ LastWrite(ns, key) # 0 =>
                 Contents(heap', got'.value) = Contents(heap, log[LastWrite(ns, key)].c)]_vars
    /\ [](vres.op = "none" => context = EmptyContext)

(***************************************************************************)
(* C27 amended: all actions share one context: a read by an action gives   *)
(* what the last write to that key stored, whichever action wrote it, a    *)
(* later write to a key replaces the earlier one, and building the tree    *)
(* leaves the context equal to {'common': {}} but for the common data that *)
(* the populate of an action stores under its name.                        *)
(***************************************************************************)
C27_SharedContextAfterBuildHoldsPopulateData ==
    /\ []ReadsSeeLastWrite
    /\ [][\A ns \in Namespaces, key \in Keys, deep \in BOOLEAN :
             GetCommonData(ns, key, deep) /\ LastWrite(ns, key) # 0 =>
                 Contents(heap', got'.value) = Contents(heap, log[LastWrite(ns, key)].c)]_vars
    /\ [](vres.op = "none" =>
             /\ context.named = <<>>
             /\ \A ns \in DOMAIN context.common :
                   \E a \in DOMAIN acts :
                       ClassTable[acts[a].class].stores /\ acts[a].name.chars = ns
             /\ (\A a \in DOMAIN acts : ~ClassTable[acts[a].class].stores)
                   => context = EmptyContext)

C27_Witness ==
    /\ IsRunning
    /\ got.op = "get_common_data"
    /\ got.found
    /\ Cardinality({i \in Writes : log[i].by = <<got.ns, <<got.key>>>>}) = 2
    /\ \E i \in Writes : log[i].a # RunOrder[running] /\ i = LastWrite(got.ns, got.key)
    /\ \E a \in DOMAIN acts : ClassTable[acts[a].class].stores
    /\ \E a \in DOMAIN acts : ~ClassTable[acts[a].class].stores
    /\ Cardinality(Stores) = 2


(***************************************************************************)
(* C28: the parameters of an action are never mutated once set: add_action *)
(* leaves the parameter block it was given, the caller's or the            *)
(* pipeline's, as it was.                                                  *)
(***************************************************************************)
C28_AddActionLeavesParametersAlone ==
    call.op = "add_action" =>
        add_action(NewAction(addedAction.name, call.before), call.data.map,
                   device, jobParams).parameters = call.data.map

(***************************************************************************)
(* C30: _diagnose(connection) runs the diagnostics of the queued           *)
(* complaints in queue order, every one of them with the connection that   *)
(* was passed to _diagnose whatever the earlier ones returned, and leaves  *)
(* the trigger queue empty when it returns.                                *)
(***************************************************************************)
C30_DiagnosticsGetPipelineConnection ==
    /\ [](\A i \in 1..(Len(log) - 1) :
            log[i + 1].op = "diagnose" /\ log[i].op \in {"log_results", "diagnose"}
                => log[i + 1].c = log[i].c)
    /\ [][HandleDomain /\ DiagnoseReturns => triggers' = <<>>]_vars


(***************************************************************************)
(* Reading the connection of a run_actions call                            *)
(***************************************************************************)
\* the pipeline that holds action a
PipelineOf(a) == SubSeq(a, 1, Len(a) - 1)

\* the actions of pipeline p that returned a connection between the start
\* of its active run_actions call and index i
ReturnedConnection(p, i) ==
    {j \in CallStart(p, i)..i :
        log[j].op = "duration" /\ ChildOf(log[j].a, p) /\ log[j].c # NoConn}

\* the connection of the run_actions call of pipeline p at index i: the one
\* the most recent action returned, or the one the call was given
CurrentConnection(p, i) ==
    LET D == ReturnedConnection(p, i)
    IN IF D = {} THEN log[CallStart(p, i)].c
       ELSE log[CHOOSE j \in D : \A k \in D : k <= j].c

(***************************************************************************)
(* C31: run_actions threads the connection: run() of each action receives  *)
(* the connection returned by the most recent earlier action of the call   *)
(* that returned one, or the connection the call was given if none did; an *)
(* action that returns None leaves the connection in place; run_actions    *)
(* returns the connection current after its last action.                   *)
(***************************************************************************)
C31_ConnectionThreaded ==
    \A i \in DOMAIN log :
        /\ (log[i].op = "run" /\ log[i].by = "loop")
               => log[i].c = CurrentConnection(PipelineOf(log[i].a), i)
        /\ log[i].op = "returned" => log[i].c = CurrentConnection(log[i].a, i)

\* the root pipeline returned a connection that an action created, after a
\* later action returned None and a still later action was run with it
C31_Witness ==
    \E r \in DOMAIN log :
        /\ log[r].op = "returned" /\ log[r].a = <<>> /\ log[r].c # NoConn
        /\ \E i \in 1..r :
              /\ log[i].op = "duration" /\ Len(log[i].a) = 1 /\ log[i].c = log[r].c
              /\ \E j \in i..r :
                    /\ log[j].op = "duration" /\ Len(log[j].a) = 1 /\ log[j].c = NoConn
                    /\ \E k \in j..r :
                          /\ log[k].op = "run" /\ log[k].by = "loop"
                          /\ Len(log[k].a) = 1 /\ log[k].c = log[r].c

(***************************************************************************)
(* C32: cleanup_actions first runs pipeline_cleanup over the internal      *)
(* pipeline of every action of the root pipeline, which calls cleanup() on *)
(* every action below the root actions whichever action failed, and only   *)
(* after all those cleanups runs the root action named finalize.           *)
(***************************************************************************)
C32_CleanupThenFinalize ==
    \A i \in CleanupActionsCalls :
        LET later == {k \in (i + 1)..Len(log) : log[k].op \notin {"cleanup", "run"}}
            end == IF later = {} THEN Len(log) + 1
                   ELSE CHOOSE k \in later : \A m \in later : k <= m
            runs == {k \in (i + 1)..(end - 1) : log[k].op = "run"}
        IN /\ \A a \in Actions : Len(a) >= 2 =>
                 \E j \in (i + 1)..(end - 1) :
                     log[j].op = "cleanup" /\ log[j].a = a /\ log[j].by = "pipeline_cleanup"
           /\ {log[k].a : k \in runs} = FinalizeActions
           /\ \A k \in runs : log[k].by = "cleanup_actions"
           /\ \A j \in (i + 1)..(end - 1), k \in runs : log[j].op = "cleanup" => j < k

\* a nested action failed; cleanup_actions cleaned up an action of another
\* internal pipeline whose run() was never entered, and then ran finalize
C32_Witness ==
    \E i \in CleanupActionsCalls :
        /\ \E r \in DOMAIN log : r < i /\ log[r].op = "raised" /\ Len(log[r].a) = 2
        /\ \E a \in Actions :
              /\ Len(a) = 2 /\ LoopRunsOf(a) = {}
              /\ \E j \in CleanupsOf(a) : j > i
        /\ \E k \in DOMAIN log :
              k > i /\ log[k].op = "run" /\ log[k].by = "cleanup_actions"

(***************************************************************************)
(* Action.run_command (action.py:598-660)                                  *)
(***************************************************************************)
MaxCommands == 2

\* what the process writes to stdout and stderr: nothing, a newline, text
Outputs == {"", "\n", "boom"}

\* str.strip()
strip(s) == IF s = "\n" THEN "" ELSE s

\* str(exc) of subprocess.CalledProcessError
CalledProcessError == "Command returned non-zero exit status 1"

\* Action.run_command(command_list, allow_silent) of action a, for a command
\* that exits with the given status after writing the given output: the
\* actions as they are left, and the value returned ("None", "True" and
\* "False" stand for the Python values, anything else is the output)
run_command(as, a, exit, output, allow_silent) ==
    LET out == IF exit = 0 THEN output ELSE "None"
        error == IF exit = 0 THEN ""
                 ELSE IF output # "" THEN strip(output) ELSE CalledProcessError
        as1 == [as EXCEPT ![a] = SetErrors(@, error)]
    IN [acts |-> as1,
        returned |-> IF out \in {"None", ""} /\ allow_silent
                     THEN (IF ActionErrors(as1, a) = <<>> THEN "True" ELSE "False")
                     ELSE out]

CommandInit == ValidateInit

\* an action of the validated job calls self.run_command while it runs
RunCommand(a, exit, output, allow_silent) ==
    /\ vres.op = "validate_actions"
    /\ vres.raised = "none"
    /\ command.n < MaxCommands
    /\ LET res == run_command(acts, a, exit, output, allow_silent)
       IN /\ acts' = res.acts
          /\ command' = [op |-> "run_command", n |-> command.n + 1, a |-> a,
                         exit |-> exit, output |-> output,
                         allow_silent |-> allow_silent,
                         before |-> ActionErrors(acts, a),
                         returned |-> res.returned]
    /\ UNCHANGED <<context, vres, heap, got, running>>
    /\ UNCHANGED <<protocol, prompt, cli, accepted>>
    /\ UNCHANGED <<engineVars, timerVars, buildVars>>

CommandNext ==
    \/ \E c \in {"leaf", "container", "no_summary"},
          parameters \in {<<>>, ("failure_retry" :> 2) @@ ("repeat" :> 3)} :
          AddJobAction(c, parameters)
    \/ ValidateJob
    \/ \E a \in DOMAIN acts, exit \in 0..1, output \in Outputs, allow_silent \in BOOLEAN :
          RunCommand(a, exit, output, allow_silent)

CommandSpec == CommandInit /\ [][CommandNext]_vars

(***************************************************************************)
(* C33: run_command(list, allow_silent=True) returns True whenever the     *)
(* process exits zero with empty output, whatever errors the action        *)
(* recorded before the call; when the process exits non-zero it returns a  *)
(* false value and appends the captured output, or the error string,       *)
(* to errors exactly once.                                                 *)
(***************************************************************************)
C33_SilentSuccessTrueFailureFalse ==
    (command.op = "run_command" /\ command.allow_silent) =>
        LET own == acts[command.a].errors
        IN /\ (command.exit = 0 /\ command.output = "") => command.returned = "True"
           /\ command.exit # 0 =>
                 /\ command.returned = "False"
                 /\ Len(ActionErrors(acts, command.a)) = Len(command.before) + 1
                 /\ own # <<>>
                 /\ own[Len(own)] =
                       (IF command.output # "" THEN command.output ELSE CalledProcessError)

C35_Step ==
    LET added == SubSeq(log', Len(log) + 1, Len(log'))
    IN /\ Len(stack') > Len(stack) => stack'[Len(stack')].tstart = now
       /\ \A i \in 1..Min(Len(stack), Len(stack')) : stack'[i].tstart = stack[i].tstart
       /\ (pc = "loop" /\ Top.idx < tree[Top.pipe].n) =>
             ((added # <<>> /\ added[1].op = "errors" /\ added[1].by = JobTimeoutMsg)
                 <=> (jobTimeout # 0 /\ now - Top.tstart > jobTimeout))

C35_DeadlineFromCallStart == [][C35_Step]_vars

\* an action of an internal pipeline was started although the job had by
\* then run for longer than job.timeout.duration
C35_Witness ==
    /\ pc = "run"
    /\ Len(stack) = 2
    /\ jobTimeout # 0
    /\ Top.start - stack[1].tstart > jobTimeout

(***************************************************************************)
(* C36: a single SIGINT or SIGTERM delivered while a pipeline action is    *)
(* running results in exactly one call of cleanup_actions, and so in       *)
(* exactly one run() of the root action named finalize, before the         *)
(* process exits.                                                          *)
(***************************************************************************)
C36_SignalCleansUpOnce ==
    (pc = "done" /\ \E i \in DOMAIN log : log[i].op = "signal") =>
        /\ Cardinality(CleanupActionsCalls) = 1
        /\ \A f \in FinalizeActions : Cardinality(RunsOf(f)) = 1

(***************************************************************************)
(* Action.call_protocols (action.py:662-690)                               *)
(***************************************************************************)
MaxCallDicts == 2
MaxInvocations == 3

\* a dict of the job definition as the YAML loader leaves it: the loader
\* adds the key yaml_line to every mapping; "absent" is a key not given
SubDicts == {"absent", "with_yaml_line"}

\* the call dicts of parameters['protocols'][protocol.name]: each names
\* the action that makes the call and may hold a message and a timeout
CallDicts ==
    [action : {"boot", "deploy"}, yaml_line : {TRUE},
     message : SubDicts, timeout : SubDicts]

CallLists ==
    UNION {[1..n -> CallDicts] : n \in 0..MaxCallDicts}

\* del d['yaml_line'] of a sub-dict: KeyError when the key is not there
DelYamlLine(sub) ==
    IF sub = "with_yaml_line" THEN [raised |-> "none", sub |-> "without_yaml_line"]
    ELSE [raised |-> "KeyError", sub |-> sub]

\* the body of the loop of call_protocols for one call dict of the action:
\* the dict as it is left, the error raised, and whether the call was made
ProtocolCall(d) ==
    IF ~d.yaml_line THEN [dict |-> d, raised |-> "KeyError", made |-> FALSE]
    ELSE LET d1 == [d EXCEPT !.yaml_line = FALSE]
             m == IF d1.message # "absent" THEN DelYamlLine(d1.message)
                  ELSE [raised |-> "none", sub |-> d1.message]
             d2 == [d1 EXCEPT !.message = m.sub]
             t == IF d2.timeout # "absent" THEN DelYamlLine(d2.timeout)
                  ELSE [raised |-> "none", sub |-> d2.timeout]
             d3 == [d2 EXCEPT !.timeout = t.sub]
         IN IF m.raised # "none" THEN [dict |-> d2, raised |-> m.raised, made |-> FALSE]
            ELSE IF t.raised # "none" THEN [dict |-> d3, raised |-> t.raised, made |-> FALSE]
            ELSE [dict |-> d3, raised |-> "none", made |-> TRUE]

\* call_protocols of the action called name, from the i-th call dict on:
\* st holds the call dicts, the calls made so far and the error raised
RECURSIVE CallProtocolsFrom(_, _, _)
CallProtocolsFrom(st, name, i) ==
    IF i > Len(st.params) \/ st.raised # "none" THEN st
    ELSE IF st.params[i].action # name THEN CallProtocolsFrom(st, name, i + 1)
    ELSE LET r == ProtocolCall(st.params[i])
         IN CallProtocolsFrom(
                [params |-> [st.params EXCEPT ![i] = r.dict],
                 calls |-> IF r.made THEN Append(st.calls, i) ELSE st.calls,
                 raised |-> r.raised],
                name, i + 1)

call_protocols(params, name) ==
    CallProtocolsFrom([params |-> params, calls |-> <<>>, raised |-> "none"], name, 1)

\* the action boot with the call dicts of its parameters, before it is run
ProtocolInit ==
    /\ tree = (<<>> :> Root(0))
    /\ jobTimeout = 0
    /\ EngineIdle
    /\ duration = <<>>
    /\ alarmAt = NoTime
    /\ NothingBuilt
    /\ NoJob
    /\ command = NoCommand
    /\ \E ps \in CallLists : protocol = [params |-> ps, calls |-> <<>>, raised |-> <<>>]
    /\ prompt = NoPrompt
    /\ cli = NoCli
    /\ accepted = NoAccepts

\* Action.run of the action boot calls self.call_protocols(): the first
\* run, or a further run made by a retry wrapper
CallProtocols ==
    /\ Len(protocol.raised) < MaxInvocations
    /\ LET res == call_protocols(protocol.params, "boot")
       IN protocol' = [params |-> res.params,
                       calls |-> Append(protocol.calls, res.calls),
                       raised |-> Append(protocol.raised, res.raised)]
    /\ UNCHANGED <<command, prompt, cli, accepted>>
    /\ UNCHANGED <<engineVars, timerVars, buildVars, jobVars>>

ProtocolNext == CallProtocols

ProtocolSpec == ProtocolInit /\ [][ProtocolNext]_vars

(***************************************************************************)
(* C37: running the same action more than once, as a retry wrapper does,   *)
(* is repeatable for protocol calls: a second invocation of call_protocols *)
(* on an action whose parameters list protocol calls makes the same        *)
(* protocol calls as the first invocation and does not raise.              *)
(***************************************************************************)
C37_CallProtocolsRepeatable ==
    (Len(protocol.raised) >= 2 /\ protocol.calls[1] # <<>>) =>
        /\ protocol.raised[2] = "none"
        /\ protocol.calls[2] = protocol.calls[1]

(***************************************************************************)
(* wait_for_prompt (utils/shell.py:67-100). Durations are counted in       *)
(* twentieths of a second, so that timeout / 2.0 and timeout / 10 of a     *)
(* whole number of seconds are whole numbers.                              *)
(***************************************************************************)
MaxPromptTimeout == 10

\* one second
Second == 20

\* the timeout argument, in seconds
PromptTimeouts == 1..MaxPromptTimeout

\* timeout / 2.0: true division, the divisor is a float
HalfOf(timeout) == (timeout * Second) \div 2

\* timeout / 10: true division on Python 3 and for a float; on Python 2 the
\* quotient of two ints is rounded down to an int
TenthOf(timeout, int_division) ==
    IF int_division THEN (timeout \div 10) * Second
    ELSE (timeout * Second) \div 10

\* the indexes connection.expect may return for prompt_pattern
PromptIndexes == 0..1

\* wait_for_prompt(connection, prompt_pattern, timeout, check_char) is
\* called: prompt_wait_count = 0, partial_timeout = timeout / 2.0; waits
\* holds the timeout of every connection.expect call made, sent the number
\* of connection.sendline(check_char) calls
PromptInit ==
    /\ tree = (<<>> :> Root(0))
    /\ jobTimeout = 0
    /\ EngineIdle
    /\ duration = <<>>
    /\ alarmAt = NoTime
    /\ NothingBuilt
    /\ NoJob
    /\ command = NoCommand
    /\ protocol = NoProtocol
    /\ \E t \in PromptTimeouts, i \in BOOLEAN :
          prompt = [state |-> "expect", timeout |-> t, int_division |-> i,
                    prompt_wait_count |-> 0, partial_timeout |-> HalfOf(t),
                    waits |-> <<>>, sent |-> 0, failed |-> 0, returned |-> -1,
                    raised |-> "none"]
    /\ cli = NoCli
    /\ accepted = NoAccepts

\* connection.expect(prompt_pattern, timeout=partial_timeout) returns index
ExpectReturns(index) ==
    /\ prompt.state = "expect"
    /\ prompt' = [prompt EXCEPT !.state = "returned",
                                !.waits = Append(@, prompt.partial_timeout),
                                !.returned = index]
    /\ UNCHANGED <<command, protocol, cli, accepted>>
    /\ UNCHANGED <<engineVars, timerVars, buildVars, jobVars>>

\* connection.expect raises TestError: the except clause
ExpectFails ==
    /\ prompt.state = "expect"
    /\ IF prompt.prompt_wait_count < 6
       THEN prompt' = [prompt EXCEPT
                          !.waits = Append(@, prompt.partial_timeout),
                          !.failed = @ + 1,
                          !.prompt_wait_count = @ + 1,
                          !.partial_timeout = TenthOf(prompt.timeout, prompt.int_division),
                          !.sent = @ + 1]
       ELSE prompt' = [prompt EXCEPT
                          !.waits = Append(@, prompt.partial_timeout),
                          !.failed = @ + 1,
                          !.state = "raised",
                          !.raised = "TestError"]
    /\ UNCHANGED <<command, protocol, cli, accepted>>
    /\ UNCHANGED <<engineVars, timerVars, buildVars, jobVars>>

\* connection.expect raises KeyboardInterrupt, which is raised again
ExpectInterrupted ==
    /\ prompt.state = "expect"
    /\ prompt' = [prompt EXCEPT !.state = "raised",
                                !.waits = Append(@, prompt.partial_timeout),
                                !.raised = "KeyboardInterrupt"]
    /\ UNCHANGED <<command, protocol, cli, accepted>>
    /\ UNCHANGED <<engineVars, timerVars, buildVars, jobVars>>

PromptNext ==
    \/ \E index \in PromptIndexes : ExpectReturns(index)
    \/ ExpectFails
    \/ ExpectInterrupted

PromptSpec == PromptInit /\ [][PromptNext]_vars

\* the sum of a sequence of durations
RECURSIVE Sum(_)
Sum(seq) == IF seq = <<>> THEN 0 ELSE Head(seq) + Sum(Tail(seq))

(***************************************************************************)
(* C38: wait_for_prompt ends after at most 7 expect attempts: the first    *)
(* attempt waits timeout/2 and each later attempt waits timeout/10; after  *)
(* each of the first 6 TestError failures it sends check_char exactly once *)
(* and retries, on the 7th TestError it raises the error again, and on the *)
(* first successful expect it returns that index without sending anything  *)
(* further; the total wait is at most 1.1 times timeout.                   *)
(***************************************************************************)
C38_PromptWaitBounded ==
    prompt.state # "none" =>
        /\ Len(prompt.waits) <= 7
        /\ \A k \in DOMAIN prompt.waits :
              prompt.waits[k] * (IF k = 1 THEN 2 ELSE 10) = prompt.timeout * Second
        /\ prompt.sent = Min(prompt.failed, 6)
        /\ (prompt.state = "raised" /\ prompt.raised = "TestError") <=> prompt.failed = 7
        /\ prompt.state = "returned" =>
              /\ prompt.returned \in PromptIndexes
              /\ prompt.sent = Len(prompt.waits) - 1
        /\ Sum(prompt.waits) * 10 <= 11 * prompt.timeout * Second

(***************************************************************************)
(* TestCli.accepts (pipeline/actions/test/cli.py:53-62)                    *)
(***************************************************************************)
MaxCliTests == 2

\* the keys an entry of cli_tests may hold
TestKeys == {"name", "sequence", "timeout"}

\* the parameters of a test block: without the key cli_tests, or with a
\* list of entries, each a dict given by the set of its keys
AcceptsInputs ==
    {[has_cli_tests |-> FALSE, cli_tests |-> <<>>]}
    \cup {[has_cli_tests |-> TRUE, cli_tests |-> ts] :
             ts \in UNION {[1..n -> SUBSET TestKeys] : n \in 0..MaxCliTests}}

required_parms == <<"name", "sequence">>

\* [x for x in required_parms if x in test]
RECURSIVE PresentFrom(_, _)
PresentFrom(test, i) ==
    IF i > Len(required_parms) THEN <<>>
    ELSE (IF required_parms[i] \in test THEN <<required_parms[i]>> ELSE <<>>)
         \o PresentFrom(test, i + 1)

\* all(list) of a list of str: every item is truthy
all(list) == \A i \in DOMAIN list : list[i] # ""

\* the loop over parameters['cli_tests'] from the i-th entry on; the
\* function ends without a return statement when no entry returned
RECURSIVE AcceptsFrom(_, _)
AcceptsFrom(tests, i) ==
    IF i > Len(tests) THEN "None"
    ELSE IF all(PresentFrom(tests[i], 1)) THEN "True"
    ELSE AcceptsFrom(tests, i + 1)

\* TestCli.accepts(device, parameters): "True", "False" or "None"
accepts(parameters) ==
    IF parameters.has_cli_tests THEN AcceptsFrom(parameters.cli_tests, 1)
    ELSE "False"

AcceptsInit ==
    /\ tree = (<<>> :> Root(0))
    /\ jobTimeout = 0
    /\ EngineIdle
    /\ duration = <<>>
    /\ alarmAt = NoTime
    /\ NothingBuilt
    /\ NoJob
    /\ command = NoCommand
    /\ protocol = NoProtocol
    /\ prompt = NoPrompt
    /\ cli = NoCli
    /\ \E ps \in AcceptsInputs :
          accepted = [op |-> "none", parameters |-> ps, returned |-> "None"]

\* the parser asks the strategy: TestCli.accepts(device, parameters)
Accepts ==
    /\ accepted.op = "none"
    /\ accepted' = [accepted EXCEPT !.op = "accepts",
                                    !.returned = accepts(accepted.parameters)]
    /\ UNCHANGED <<command, protocol, prompt, cli>>
    /\ UNCHANGED <<engineVars, timerVars, buildVars, jobVars>>

AcceptsNext == Accepts

AcceptsSpec == AcceptsInit /\ [][AcceptsNext]_vars

(***************************************************************************)
(* C40: TestCli.accepts(device, parameters) returns True if and only if    *)
(* parameters contains cli_tests with at least one entry that has both     *)
(* required keys, name and sequence; in every other case it returns False. *)
(***************************************************************************)
C40_AcceptsIffNameAndSequence ==
    accepted.op = "accepts" =>
        LET ok == /\ accepted.parameters.has_cli_tests
                  /\ \E i \in DOMAIN accepted.parameters.cli_tests :
                        {"name", "sequence"} \subseteq accepted.parameters.cli_tests[i]
        IN accepted.returned = (IF ok THEN "True" ELSE "False")

(***************************************************************************)
(* TestCliAction.run (pipeline/actions/test/cli.py:112-293, 408-427)       *)
(***************************************************************************)
MaxCliSteps == 2

\* the names of the tests of cli_tests: a str, possibly the empty one
CliTestNames == {Str(<<"T", " ", "1">>), Str(<<>>)}

\* the steps of a sequence, by their first key; a check step is given with
\* the on_fail of its check ("none" when the key is absent)
CliSteps ==
    [kind : {"commands", "inputs", "control"}, on_fail : {"none"}]
    \cup [kind : {"check"}, on_fail : {"none", "skip", "abort"}]

CliSequences == UNION {[1..n -> CliSteps] : n \in 0..MaxCliSteps}

\* parameters['cli_tests']
CliTests ==
    UNION {[1..n -> [name : CliTestNames, sequence : CliSequences]] : n \in 0..MaxCliTests}

\* str.replace(' ', '-').lower(), for the characters the names use
CaseName(name) ==
    Str([i \in DOMAIN name.chars |->
            IF name.chars[i] = " " THEN "-"
            ELSE IF name.chars[i] = "T" THEN "t" ELSE name.chars[i]])

\* the events of a check: the key of the pattern that connection.expect
\* matched
CheckEvents == {"eof", "timeout", "pass0", "fail0"}

\* the step _process_sequence is at
CliStep == cli.tests[cli.t].sequence[cli.s + 1]

\* the for loop of _process_sequence has a step left
CliInSequence ==
    cli.state = "running" /\ cli.t >= 1 /\ cli.s < Len(cli.tests[cli.t].sequence)

\* the for loop of _process_sequence is over, or run has not begun its own
CliBetweenTests ==
    /\ cli.state = "running"
    /\ cli.s = (IF cli.t = 0 THEN 0 ELSE Len(cli.tests[cli.t].sequence))

\* if self._skip_test or self._abort_job
CliFlagged == Truthy(cli.skip_test) \/ Truthy(cli.abort_job)

\* TestCliAction._log_skipped_check: the result logged
log_skipped_check(c) ==
    [c EXCEPT !.results = Append(@, [t |-> c.t, s |-> c.s + 1, result |-> "skip",
                                     case |-> CaseName(c.tests[c.t].name)])]

\* TestCliAction.check_patterns(event, test_connection, check)
check_patterns(c, check, event) ==
    LET case == CaseName(c.tests[c.t].name)
        result == IF event = "pass0" THEN "pass"
                  ELSE IF event = "fail0" THEN "fail" ELSE "invalid"
        c1 == IF event \in {"eof", "timeout"} THEN [c EXCEPT !.status = "failed"] ELSE c
        c2 == IF result = "fail" /\ check.on_fail = "skip"
              THEN [c1 EXCEPT !.skip_test = case]
              ELSE IF result = "fail" /\ check.on_fail = "abort"
              THEN [c1 EXCEPT !.abort_job = case]
              ELSE c1
    IN IF result # "invalid"
       THEN [c2 EXCEPT !.results = Append(@, [t |-> c.t, s |-> c.s + 1,
                                              result |-> result, case |-> case])]
       ELSE c2

\* TestCliAction.run is called: __init__ left _abort_job and _skip_test None
CliInit ==
    /\ tree = (<<>> :> Root(0))
    /\ jobTimeout = 0
    /\ EngineIdle
    /\ duration = <<>>
    /\ alarmAt = NoTime
    /\ NothingBuilt
    /\ NoJob
    /\ command = NoCommand
    /\ protocol = NoProtocol
    /\ prompt = NoPrompt
    /\ \E ts \in CliTests :
          cli = [state |-> "running", tests |-> ts, t |-> 0, s |-> 0,
                 skip_test |-> None, abort_job |-> None,
                 executed |-> <<>>, results |-> <<>>, status |-> "unset"]
    /\ accepted = NoAccepts

\* run: the next test of cli_tests begins, self._skip_test = None
CliNextTest ==
    /\ CliBetweenTests
    /\ cli.t < Len(cli.tests)
    /\ cli' = [cli EXCEPT !.t = @ + 1, !.s = 0, !.skip_test = None]
    /\ UNCHANGED <<command, protocol, prompt, accepted>>
    /\ UNCHANGED <<engineVars, timerVars, buildVars, jobVars>>

\* _process_sequence: the step is passed over, a check is logged as skipped
CliSkipStep ==
    /\ CliInSequence
    /\ CliFlagged
    /\ cli' = [(IF CliStep.kind = "check" THEN log_skipped_check(cli) ELSE cli)
                  EXCEPT !.s = @ + 1]
    /\ UNCHANGED <<command, protocol, prompt, accepted>>
    /\ UNCHANGED <<engineVars, timerVars, buildVars, jobVars>>

\* _process_sequence: a commands, inputs or control step is carried out
CliSendStep ==
    /\ CliInSequence
    /\ ~CliFlagged
    /\ CliStep.kind \in {"commands", "inputs", "control"}
    /\ cli' = [cli EXCEPT !.s = @ + 1,
                          !.executed = Append(@, [t |-> cli.t, s |-> cli.s + 1,
                                                  kind |-> CliStep.kind])]
    /\ UNCHANGED <<command, protocol, prompt, accepted>>
    /\ UNCHANGED <<engineVars, timerVars, buildVars, jobVars>>

\* _process_sequence: a check step is carried out and ends with event
CliCheckStep(event) ==
    /\ CliInSequence
    /\ ~CliFlagged
    /\ CliStep.kind = "check"
    /\ LET c == [cli EXCEPT !.executed = Append(@, [t |-> cli.t, s |-> cli.s + 1,
                                                    kind |-> "check"])]
       IN cli' = [check_patterns(c, CliStep, event) EXCEPT !.s = @ + 1]
    /\ UNCHANGED <<command, protocol, prompt, accepted>>
    /\ UNCHANGED <<engineVars, timerVars, buildVars, jobVars>>

\* run: the tests are over, the status is set
CliFinish ==
    /\ CliBetweenTests
    /\ cli.t = Len(cli.tests)
    /\ cli' = [cli EXCEPT !.state = "done",
                          !.status = IF Truthy(cli.abort_job) THEN "aborted" ELSE "finished"]
    /\ UNCHANGED <<command, protocol, prompt, accepted>>
    /\ UNCHANGED <<engineVars, timerVars, buildVars, jobVars>>

CliNext ==
    \/ CliNextTest
    \/ CliSkipStep
    \/ CliSendStep
    \/ \E event \in CheckEvents : CliCheckStep(event)
    \/ CliFinish

CliSpec == CliInit /\ [][CliNext]_vars

(***************************************************************************)
(* Reading a run of TestCliAction                                          *)
(***************************************************************************)
\* the check steps that failed with the given on_fail
FailedWith(on_fail) ==
    {r \in DOMAIN cli.results :
        /\ cli.results[r].result = "fail"
        /\ cli.tests[cli.results[r].t].sequence[cli.results[r].s].on_fail = on_fail}

\* step (t, s) comes after the step of result r
After(t, s, r) ==
    t > cli.results[r].t \/ (t = cli.results[r].t /\ s > cli.results[r].s)

\* step (t, s) is suppressed: it follows a check that failed with abort, or
\* follows, in the same test, a check that failed with skip
Suppressed(t, s) ==
    \/ \E r \in FailedWith("abort") : After(t, s, r)
    \/ \E r \in FailedWith("skip") : cli.results[r].t = t /\ s > cli.results[r].s

\* the steps the run has been through
CliPassed ==
    {<<t, s>> \in (1..MaxCliTests + 1) \X (1..MaxCliSteps + 1) :
        /\ t <= cli.t /\ t \in DOMAIN cli.tests
        /\ s \in DOMAIN cli.tests[t].sequence
        /\ (t = cli.t => s <= cli.s)}

(***************************************************************************)
(* C39: in TestCliAction, once a check fails with on_fail abort, no        *)
(* further command, input, control or check step is executed in the        *)
(* current test or in any later test of cli_tests, every remaining check   *)
(* step is logged with result skip, and the final status is aborted; a     *)
(* check that fails with on_fail skip suppresses only the remaining steps  *)
(* of the same test, and later tests run normally.                         *)
(***************************************************************************)
C39_AbortStopsAllSkipStopsTest ==
    cli.state # "none" =>
        /\ \A p \in CliPassed :
              LET t == p[1]
                  s == p[2]
                  done == \E e \in DOMAIN cli.executed :
                             cli.executed[e].t = t /\ cli.executed[e].s = s
                  skipped == \E r \in DOMAIN cli.results :
                                /\ cli.results[r].t = t /\ cli.results[r].s = s
                                /\ cli.results[r].result = "skip"
              IN /\ done <=> ~Suppressed(t, s)
                 /\ (Suppressed(t, s) /\ cli.tests[t].sequence[s].kind = "check") => skipped
        /\ cli.state = "done" =>
              (cli.status = "aborted" <=> FailedWith("abort") # {})

=============================================================================
